---- MODULE Spec2Model ----
(***************************************************************************)
(* State-machine model of the api_basics HTTP service (src/src/index.ts):  *)
(* account registration, password-grant login, refresh and revocation of  *)
(* refresh tokens, the access token codec, the request guard, and the      *)
(* guarded routes /profile and /todos.                                     *)
(*                                                                         *)
(* Every handler is an async function; it can be preempted only at an      *)
(* await.  A handler is therefore modelled by one action per database      *)
(* round trip: the code between two awaited store calls is one atomic      *)
(* step.  A request between two round trips lives in a slot req[p]; the    *)
(* answer given last is kept in `out`.                                     *)
(*                                                                         *)
(* Strings are tuples of characters (or of larger items), so that          *)
(* `includes`, `length` and `split` are computed and not assumed.  The     *)
(* empty tuple stands for a value that is missing, null or empty: all are  *)
(* falsy in the handlers' `!x` tests.  Request fields are JSON strings or  *)
(* absent.                                                                 *)
(*                                                                         *)
(* Time is counted in ticks, TicksPerSec of them to a second; the store's  *)
(* timestamp columns and the token codec keep whole seconds.               *)
(***************************************************************************)
EXTENDS Integers, Sequences, FiniteSets, TLC

\* ------------------------------------------------------------- bounds
MaxTime == 3
MaxTokens == 2
MaxTodos == 1

\* ------------------------------------------------------ configuration
\* the factor between Date's clock and the stored seconds, scaled down
TicksPerSec == 2
\* parseInt(c.env.JWT_ACCESS_EXPIRY), parseInt(c.env.JWT_REFRESH_EXPIRY),
\* in seconds, scaled down
JWT_ACCESS_EXPIRY == 1
JWT_REFRESH_EXPIRY == 1
JWT_SECRET == "server-secret"

Procs == {1, 2}

VARIABLES
    users,          \* table users: set of rows
    refreshTokens,  \* table refresh_tokens: set of rows
    now,            \* the clock, in ticks
    nextUuid,       \* number of crypto.randomUUID() draws so far, plus one
    nextToken,      \* number of generateRefreshToken() draws so far, plus one
    req,            \* request slots: position and locals of a handler in flight
    active,         \* the slots in use: how many requests may be in flight
    out,            \* the answer given last, with the request it answers
    hist,           \* observer: what has happened to each refresh token string
    denied,         \* observer: the last answer to a login with an unknown
                    \* email, and the last answer to one with a wrong password
    todos,          \* table todos: set of rows
    held,           \* the answers with an access token that the clients kept
    stmt,           \* observer: the store statement run by the last step of a
                    \* guarded route, with the columns of its WHERE clause
    made,           \* observer: for each todo ever inserted, the account the
                    \* inserting request was authenticated as, and whether a
                    \* DELETE has removed it since
    client          \* the Terraform provider's API client: its fields, the
                    \* call to DoRequest in progress and what it has sent

vars == <<users, refreshTokens, now, nextUuid, nextToken, req, active, out, hist,
          denied, todos, held, stmt, made, client>>

\* ------------------------------------------------------------ strings
Missing == <<>>
EmailA == <<"a", "@", "x">>
EmailB == <<"b", "@", "x">>
EmailNoAt == <<"a", "x">>
PwGood == <<"p", "a", "s", "s", "w", "o", "r", "d">>
PwOther == <<"P", "a", "s", "s", "w", "o", "r", "d">>
PwShort == <<"p", "a", "s", "s", "w", "o", "r">>
NameA == <<"A">>
TitleA == <<"t", "1">>
TitleB == <<"t", "2">>

Falsy(s) == s = <<>>
Includes(s, ch) == \E i \in 1..Len(s) : s[i] = ch

\* ------------------------------------------------------------- tokens
\* A refresh token is 32 random bytes in hex: the n-th draw is Token(n). A
\* draw never repeats an earlier draw nor a string a client sent before, so
\* clients send strings that a login has handed out (drawn, and no longer on
\* their way to the store), or a string that is never drawn.
Token(n) == <<"rt", n>>
Junk == <<"junk">>
AllTokens == {Junk} \cup {Token(n) : n \in 1..MaxTokens}
KnownTokens ==
    {Junk} \cup ({Token(n) : n \in 1..(nextToken - 1)}
                 \ {req[q].refreshToken :
                       q \in {x \in DOMAIN req : req[x].pc = "token_insert"}})

\* variant: a generator that is not random
generateRefreshToken_Fixed == Token(1)
generateRefreshToken == Token(nextToken)
generateUUID == <<"uuid", nextUuid>>

Secs(t) == t \div TicksPerSec

hashPassword(password) == [bcrypt |-> password, cost |-> 10]
verifyPassword(password, hash) == hash.bcrypt = password

\* variant: a token signed with the wrong discriminator
generateAccessToken_Refresh(userId, email, secret, expirySeconds) ==
    <<[k |-> "jwt", userId |-> userId, email |-> email, type |-> "refresh",
       iat |-> Secs(now), exp |-> Secs(now) + expirySeconds, sig |-> secret]>>

\* variant: the lifetime taken for milliseconds' worth of seconds
generateAccessToken_Millis(userId, email, secret, expirySeconds) ==
    <<[k |-> "jwt", userId |-> userId, email |-> email, type |-> "access",
       iat |-> Secs(now), exp |-> Secs(now) + expirySeconds * 1000, sig |-> secret]>>

\* a signed token is a one-item string: the item holds the claims and the
\* secret it was signed with
generateAccessToken(userId, email, secret, expirySeconds) ==
    <<[k |-> "jwt", userId |-> userId, email |-> email, type |-> "access",
       iat |-> Secs(now), exp |-> Secs(now) + expirySeconds, sig |-> secret]>>

\* jwt.verify(token, secret): the claims, or an exception for a string that
\* is no token, a signature made with another secret, or an expiry reached
Thrown(name) == [threw |-> TRUE, name |-> name]
jwtVerify(token, secret) ==
    IF ~(Len(token) = 1 /\ token[1].k = "jwt")
    THEN Thrown("JsonWebTokenError")
    ELSE IF token[1].sig # secret
    THEN Thrown("JsonWebTokenError")
    ELSE IF ~(Secs(now) < token[1].exp)
    THEN Thrown("TokenExpiredError")
    ELSE [threw |-> FALSE, payload |-> token[1]]

NoPayload == [ok |-> FALSE]

\* variant: the call to jwt.verify outside a try block
verifyAccessToken_NoCatch(token, secret) ==
    LET r == jwtVerify(token, secret) IN
    IF r.threw
    THEN [ok |-> FALSE, uncaught |-> r.name]
    ELSE IF r.payload.type # "access"
         THEN NoPayload
         ELSE [ok |-> TRUE, userId |-> r.payload.userId, email |-> r.payload.email,
               type |-> r.payload.type]

verifyAccessToken(token, secret) ==
    LET r == jwtVerify(token, secret) IN
    IF r.threw
    THEN NoPayload
    ELSE IF r.payload.type # "access"
         THEN NoPayload
         ELSE [ok |-> TRUE, userId |-> r.payload.userId, email |-> r.payload.email,
               type |-> r.payload.type]

\* ------------------------------------------------ Authorization header
SP == [k |-> "sp"]
Word(w) == [k |-> "word", w |-> w]

RECURSIVE Split(_)
Split(s) ==
    IF \A i \in 1..Len(s) : s[i] # SP
    THEN <<s>>
    ELSE LET i == CHOOSE j \in 1..Len(s) :
                     s[j] = SP /\ \A m \in 1..(j - 1) : s[m] # SP
         IN  <<SubSeq(s, 1, i - 1)>> \o Split(SubSeq(s, i + 1, Len(s)))

\* variant: the scheme word compared without regard to case
extractBearerToken_AnyCase(authHeader) ==
    IF Falsy(authHeader)
    THEN Missing
    ELSE LET parts == Split(authHeader) IN
         IF Len(parts) # 2 \/ parts[1] \notin {<<Word("Bearer")>>, <<Word("bearer")>>}
         THEN Missing
         ELSE parts[2]

extractBearerToken(authHeader) ==
    IF Falsy(authHeader)
    THEN Missing
    ELSE LET parts == Split(authHeader) IN
         IF Len(parts) # 2 \/ parts[1] # <<Word("Bearer")>>
         THEN Missing
         ELSE parts[2]

\* ---------------------------------------------------------------- store
SelectUserByEmail(email) == {u \in users : u.email = email}
SelectUserById(id) == {u \in users : u.id = id}

\* variant: a users table without the unique index on email
UsersInsertOk_IdOnly(row) == \A u \in users : u.id # row.id
\* users.id is the primary key and users.email is unique
UsersInsertOk(row) == \A u \in users : u.id # row.id /\ u.email # row.email

\* refresh_tokens.token is unique
RefreshInsertOk(row) == \A r \in refreshTokens : r.token # row.token

\* variant: the join without its ON condition
SelectRefreshJoin_Cross(token) ==
    {j \in {[token |-> r, user |-> u] : r \in refreshTokens, u \in users} :
        j.token.token = token}

\* refresh_tokens INNER JOIN users ON refresh_tokens.user_id = users.id
SelectRefreshJoin(token) ==
    {j \in {[token |-> r, user |-> u] : r \in refreshTokens, u \in users} :
        j.token.userId = j.user.id /\ j.token.token = token}

\* variant: a delete whose WHERE matches nothing
DeleteRefresh_None(rows, token) == rows
\* variant: a delete that ends all sessions of the token's owner
DeleteRefresh_ByUser(rows, token) ==
    {r \in rows : \A x \in rows : x.token = token => r.userId # x.userId}
\* variant: a delete that spares the rows past their expiry
DeleteRefresh_Live(rows, token) ==
    {r \in rows : ~(r.token = token /\ r.expiresAt * TicksPerSec >= now)}
DeleteRefresh(rows, token) == {r \in rows : r.token # token}

\* a Date is written to an integer timestamp column in whole seconds,
\* and read back as a Date on a second boundary
ToColumn(ticks) == Secs(ticks)
FromColumn(secs) == secs * TicksPerSec

\* variant: the expiry check left out
IsExpired_Never(row) == FALSE
\* variant: a token counted as expired from the instant of its expiry
IsExpired_AtExpiry(row) == FromColumn(row.expiresAt) <= now
IsExpired(row) == FromColumn(row.expiresAt) < now

\* a JSON value carries its kind: a string its characters, an array its
\* items, an object its members <<key, value>> in insertion order
Json(kind, value) == [t |-> kind, v |-> value]
EmptyObject == Json("object", <<>>)

\* JSON text: a sequence of tokens
Tok(kind, text) == [k |-> kind, s |-> text]
Punct(c) == Tok(c, <<>>)

RECURSIVE Serialize(_)
RECURSIVE SerializeItems(_, _)
RECURSIVE SerializeMembers(_, _)
Serialize(x) ==
    IF x.t = "array"
    THEN <<Punct("[")>> \o SerializeItems(x.v, 1) \o <<Punct("]")>>
    ELSE IF x.t = "object"
    THEN <<Punct("{")>> \o SerializeMembers(x.v, 1) \o <<Punct("}")>>
    ELSE <<Tok(x.t, x.v)>>
SerializeItems(items, i) ==
    IF i > Len(items) THEN <<>>
    ELSE (IF i > 1 THEN <<Punct(",")>> ELSE <<>>)
         \o Serialize(items[i]) \o SerializeItems(items, i + 1)
SerializeMembers(members, i) ==
    IF i > Len(members) THEN <<>>
    ELSE (IF i > 1 THEN <<Punct(",")>> ELSE <<>>)
         \o <<Tok("string", members[i][1]), Punct(":")>>
         \o Serialize(members[i][2]) \o SerializeMembers(members, i + 1)

\* the value that starts at token i, and the place after it
RECURSIVE ParseAt(_, _)
RECURSIVE ParseItems(_, _, _)
RECURSIVE ParseMembers(_, _, _)
ParseAt(toks, i) ==
    IF toks[i].k = "["
    THEN LET r == ParseItems(toks, i + 1, <<>>)
         IN  [v |-> Json("array", r.v), next |-> r.next]
    ELSE IF toks[i].k = "{"
    THEN LET r == ParseMembers(toks, i + 1, <<>>)
         IN  [v |-> Json("object", r.v), next |-> r.next]
    ELSE [v |-> Json(toks[i].k, toks[i].s), next |-> i + 1]
ParseItems(toks, i, acc) ==
    IF toks[i].k = "]" THEN [v |-> acc, next |-> i + 1]
    ELSE IF toks[i].k = "," THEN ParseItems(toks, i + 1, acc)
    ELSE LET r == ParseAt(toks, i)
         IN  ParseItems(toks, r.next, Append(acc, r.v))
ParseMembers(toks, i, acc) ==
    IF toks[i].k = "}" THEN [v |-> acc, next |-> i + 1]
    ELSE IF toks[i].k = "," THEN ParseMembers(toks, i + 1, acc)
    ELSE LET r == ParseAt(toks, i + 2)
         IN  ParseMembers(toks, r.next, Append(acc, <<toks[i].s, r.v>>))

\* variant: members that are objects or arrays written as empty objects
JsonStringify_Shallow(value) ==
    Serialize(IF value.t = "object"
              THEN Json("object",
                        [i \in 1..Len(value.v) |->
                            IF value.v[i][2].t \in {"object", "array"}
                            THEN <<value.v[i][1], EmptyObject>>
                            ELSE value.v[i]])
              ELSE value)
JsonStringify(value) == Serialize(value)
JsonParse(text) == ParseAt(text, 1).v
\* typeof: 'object' for objects, arrays and null
TypeOf(value) == IF value.t \in {"object", "array", "null"} THEN "object" ELSE value.t

\* ---------------------------------------------------------- table todos
\* A path id is <<shape, n>>: "uuid" is the shape of a version 4 UUID in
\* either case, as crypto.randomUUID() makes them; "uuid-v1" has another
\* version digit, "text" is not hexadecimal groups at all.
\* variant: the pattern without the version digit
isValidUUID_AnyVersion(uuid) == Len(uuid) = 2 /\ uuid[1] \in {"uuid", "uuid-v1"}
isValidUUID(uuid) == Len(uuid) = 2 /\ uuid[1] = "uuid"

\* variant: the list without its WHERE clause
SelectTodosByUser_All(userId) == todos
\* WHERE todos.user_id = ?
SelectTodosByUser(userId) == {t \in todos : t.userId = userId}

\* variant: the lookup by id alone
SelectTodo_ById(id, userId) == {t \in todos : t.id = id}
\* WHERE todos.id = ? AND todos.user_id = ?
SelectTodo(id, userId) == {t \in todos : t.id = id /\ t.userId = userId}

\* variant: a SET that writes every content column, the ones not named in
\* updates with their defaults
Merge_Replace(row, updates) ==
    [c \in DOMAIN row |->
        IF c \in DOMAIN updates THEN updates[c]
        ELSE IF c \in {"title", "description", "name", "bio"} THEN Missing
        ELSE IF c = "completed" THEN FALSE
        ELSE row[c]]
\* the row after SET: the columns named in updates replaced
Merge(row, updates) ==
    [c \in DOMAIN row |-> IF c \in DOMAIN updates THEN updates[c] ELSE row[c]]

\* UPDATE todos SET ... WHERE todos.id = ?
UpdateTodo(rows, id, updates) ==
    {IF t.id = id THEN Merge(t, updates) ELSE t : t \in rows}
\* variant: a delete that matches no row
DeleteTodo_None(rows, id) == rows
\* DELETE FROM todos WHERE todos.id = ?
DeleteTodo(rows, id) == {t \in rows : t.id # id}

\* Boolean(x) of a JSON true or false
Boolean(x) == x = TRUE

\* ------------------------------------------------------------ responses
Err(status, error, message) ==
    [status |-> status, error |-> error, message |-> message]

StoreError(what) == <<"UNIQUE constraint failed", what>>

\* variant: a refusal that tells an unknown email from a wrong password
NoSuchUser_Telling == Err(404, "Not Found", "No account with this email")
\* the two refusals of POST /token
NoSuchUser == Err(401, "Unauthorized", "Invalid email or password")
WrongPassword == Err(401, "Unauthorized", "Invalid email or password")

\* variant: the length check off by one
PasswordTooShort_Seven(password) == Len(password) < 7
PasswordTooShort(password) == Len(password) < 8

\* variant: a refresh that consumes the token it was given
KeepRefresh_Rotate(rows, token) == DeleteRefresh(rows, token)
\* a successful refresh makes no store call after the lookup
KeepRefresh(rows, token) == rows

\* no statement: the step made no store call
NoStmt == [verb |-> "none"]
Stmt(verb, table, where) == [verb |-> verb, table |-> table, where |-> where]

\* no client: the requests come from anywhere
NoClient == [pc |-> "none"]
NoCall == [method |-> "none"]
NoBody == [nil |-> TRUE]
NoResult == [err |-> "none"]

Idle == [pc |-> "idle"]
Free(p) == p \in active /\ req[p].pc = "idle"

NoHist == [life |-> "absent", rv |-> FALSE, email |-> Missing, at |-> 0]
NoPre == [life |-> "absent", rv |-> FALSE]
Pre(t) == IF t \in DOMAIN hist
          THEN [life |-> hist[t].life, rv |-> hist[t].rv]
          ELSE NoPre

\* formatResponse(c, data, status): the answer to the request in slot p
Answer(p, op, body, resp, tag, pre) ==
    /\ req' = [req EXCEPT ![p] = Idle]
    /\ out' = [op |-> op, body |-> body, resp |-> resp, tag |-> tag, pre |-> pre]

Await(p, slot) ==
    /\ req' = [req EXCEPT ![p] = slot]
    /\ out' = out

InitWith(procs, accounts) ==
    /\ users = accounts
    /\ refreshTokens = {}
    /\ now = 0
    /\ nextUuid = Cardinality(accounts) + 1
    /\ nextToken = 1
    /\ req = [p \in Procs |-> Idle]
    /\ active = procs
    /\ out = [op |-> "none"]
    /\ hist = [t \in AllTokens |-> NoHist]
    /\ denied = [nouser |-> <<>>, badpw |-> <<>>]
    /\ todos = {}
    /\ held = {}
    /\ stmt = NoStmt
    /\ made = {}
    /\ client = NoClient

\* ------------------------------------------------------ POST /register
RegisterStart(p, body) ==
    /\ Free(p)
    /\ LET existingUser == SelectUserByEmail(body.email) IN
       IF Falsy(body.email) \/ Falsy(body.password) \/ Falsy(body.name)
       THEN Answer(p, "register", body,
                   Err(400, "Bad Request", "Missing required fields: email, password, name"),
                   "invalid", NoPre)
       ELSE IF ~Includes(body.email, "@")
       THEN Answer(p, "register", body,
                   Err(400, "Bad Request", "Invalid email format"), "invalid", NoPre)
       ELSE IF PasswordTooShort(body.password)
       THEN Answer(p, "register", body,
                   Err(400, "Bad Request", "Password must be at least 8 characters long"),
                   "invalid", NoPre)
       ELSE IF existingUser # {}
       THEN Answer(p, "register", body,
                   Err(409, "Conflict", "User with this email already exists"),
                   "exists", NoPre)
       ELSE Await(p, [pc |-> "register_insert", body |-> body])
    /\ UNCHANGED <<made, client, users, refreshTokens, now, nextUuid, nextToken, active, todos, held, stmt, hist, denied>>

RegisterInsert(p) ==
    /\ req[p].pc = "register_insert"
    /\ LET body == req[p].body
           hashedPassword == hashPassword(body.password)
           userId == generateUUID
           row == [id |-> userId, email |-> body.email, password |-> hashedPassword,
                   name |-> body.name, bio |-> Missing,
                   preferences |-> JsonStringify(EmptyObject),
                   createdAt |-> ToColumn(now), updatedAt |-> ToColumn(now)]
       IN  IF UsersInsertOk(row)
           THEN /\ users' = users \cup {row}
                /\ Answer(p, "register", body,
                          [status |-> 201, success |-> TRUE,
                           message |-> "User registered successfully",
                           userId |-> row.id, email |-> row.email, name |-> row.name],
                          "created", NoPre)
           ELSE /\ users' = users
                /\ Answer(p, "register", body,
                          Err(500, "Internal Server Error", StoreError("users.email")),
                          "raced", NoPre)
    /\ nextUuid' = nextUuid + 1
    /\ UNCHANGED <<made, client, refreshTokens, now, nextToken, active, todos, held, stmt, hist, denied>>

\* --------------------------------------------------------- POST /token
\* The handler reads the clock between its two store calls (jwt.sign, and
\* Date.now() for the refresh expiry); the store sets created_at from its
\* own clock when it runs the insert, one round trip later.

\* variant: the lifetime added in seconds to a clock that counts finer units
RefreshExpiry_Unscaled(lifetime) == now + lifetime
\* new Date(Date.now() + refreshExpiry * 1000)
RefreshExpiry(lifetime) == now + lifetime * TicksPerSec

TokenStart(p, body) ==
    /\ Free(p)
    /\ LET user == SelectUserByEmail(body.email)
       IN
       IF Falsy(body.email) \/ Falsy(body.password)
       THEN /\ Answer(p, "token", body,
                      Err(400, "Bad Request", "Missing required fields: email, password"),
                      "invalid", NoPre)
            /\ UNCHANGED <<denied, nextToken, hist>>
       ELSE IF user = {}
       THEN /\ Answer(p, "token", body, NoSuchUser, "nouser", NoPre)
            /\ denied' = [denied EXCEPT !.nouser = <<out'.resp>>]
            /\ UNCHANGED <<nextToken, hist>>
       ELSE IF ~verifyPassword(body.password, (CHOOSE u \in user : TRUE).password)
       THEN /\ Answer(p, "token", body, WrongPassword, "badpw", NoPre)
            /\ denied' = [denied EXCEPT !.badpw = <<out'.resp>>]
            /\ UNCHANGED <<nextToken, hist>>
       ELSE LET u == CHOOSE x \in user : TRUE
                accessToken == generateAccessToken(u.id, u.email, JWT_SECRET,
                                                   JWT_ACCESS_EXPIRY)
                refreshToken == generateRefreshToken
                expiresAt == RefreshExpiry(JWT_REFRESH_EXPIRY)
            IN  /\ nextToken <= MaxTokens
                /\ Await(p, [pc |-> "token_insert", body |-> body, user |-> u,
                             accessToken |-> accessToken,
                             refreshToken |-> refreshToken,
                             expiresAt |-> expiresAt])
                /\ nextToken' = nextToken + 1
                /\ hist' = [hist EXCEPT ![refreshToken].at = Secs(now)]
                /\ denied' = denied
    /\ UNCHANGED <<made, client, users, refreshTokens, now, nextUuid, active, todos, held, stmt>>

TokenInsert(p) ==
    /\ req[p].pc = "token_insert"
    /\ LET body == req[p].body
           user == req[p].user
           refreshToken == req[p].refreshToken
           row == [token |-> refreshToken, userId |-> user.id,
                   expiresAt |-> ToColumn(req[p].expiresAt),
                   createdAt |-> ToColumn(now)]
       IN  IF RefreshInsertOk(row)
           THEN /\ refreshTokens' = refreshTokens \cup {row}
                /\ hist' = [hist EXCEPT ![refreshToken].life = "issued",
                                        ![refreshToken].email = body.email]
                /\ Answer(p, "token", body,
                          [status |-> 200, success |-> TRUE, token_type |-> "Bearer",
                           access_token |-> req[p].accessToken,
                           refresh_token |-> refreshToken,
                           expires_in |-> JWT_ACCESS_EXPIRY],
                          "login", NoPre)
           ELSE /\ UNCHANGED <<refreshTokens, hist>>
                /\ Answer(p, "token", body,
                          Err(500, "Internal Server Error",
                              StoreError("refresh_tokens.token")),
                          "raced", NoPre)
    /\ UNCHANGED <<made, client, users, now, nextUuid, nextToken, active, todos, held, stmt, denied>>

\* ------------------------------------------------------- POST /refresh
RefreshStart(p, body) ==
    /\ Free(p)
    /\ LET refresh_token == body.refresh_token
           found == SelectRefreshJoin(refresh_token)
           pre == Pre(refresh_token)
       IN  IF Falsy(refresh_token)
           THEN /\ Answer(p, "refresh", body,
                          Err(400, "Bad Request", "Missing required field: refresh_token"),
                          "invalid", pre)
                /\ UNCHANGED <<refreshTokens, hist>>
           ELSE IF found = {}
           THEN /\ Answer(p, "refresh", body,
                          Err(401, "Unauthorized", "Invalid refresh token"),
                          "unknown", pre)
                /\ UNCHANGED <<refreshTokens, hist>>
           ELSE LET tokenRecord == CHOOSE j \in found : TRUE IN
                IF IsExpired(tokenRecord.token)
                THEN /\ Await(p, [pc |-> "refresh_delete", body |-> body, pre |-> pre])
                     /\ UNCHANGED <<refreshTokens, hist>>
                ELSE /\ Answer(p, "refresh", body,
                               [status |-> 200, success |-> TRUE,
                                token_type |-> "Bearer",
                                access_token |->
                                    generateAccessToken(tokenRecord.user.id,
                                                        tokenRecord.user.email,
                                                        JWT_SECRET, JWT_ACCESS_EXPIRY),
                                expires_in |-> JWT_ACCESS_EXPIRY],
                               IF out.op = "refresh" /\ out.body = body
                                  /\ out.resp.status = 200
                               THEN "refreshed again" ELSE "refreshed", pre)
                     /\ refreshTokens' = KeepRefresh(refreshTokens, refresh_token)
                     /\ hist' = hist
    /\ UNCHANGED <<made, client, users, now, nextUuid, nextToken, active, todos, held, stmt, denied>>

RefreshDelete(p) ==
    /\ req[p].pc = "refresh_delete"
    /\ LET refresh_token == req[p].body.refresh_token IN
       /\ refreshTokens' = DeleteRefresh(refreshTokens, refresh_token)
       /\ hist' = IF refreshTokens' # refreshTokens
                  THEN [hist EXCEPT ![refresh_token].life = "expired"]
                  ELSE hist
       /\ Answer(p, "refresh", req[p].body,
                 Err(401, "Unauthorized", "Refresh token has expired"),
                 "expired", req[p].pre)
    /\ UNCHANGED <<made, client, users, now, nextUuid, nextToken, active, todos, held, stmt, denied>>

\* -------------------------------------------------------- POST /revoke
\* variant: a revocation that matched no row reported as a success
RevokeNotFound_Ok ==
    [status |-> 200, success |-> TRUE, message |-> "Token revoked successfully"]
RevokeNotFound == Err(404, "Not Found", "Refresh token not found")

Revoke(p, body) ==
    /\ Free(p)
    /\ LET refresh_token == body.refresh_token
           result == refreshTokens \ DeleteRefresh(refreshTokens, refresh_token)
           pre == Pre(refresh_token)
       IN  IF Falsy(refresh_token)
           THEN /\ Answer(p, "revoke", body,
                          Err(400, "Bad Request", "Missing required field: refresh_token"),
                          "invalid", pre)
                /\ UNCHANGED <<refreshTokens, hist>>
           ELSE /\ refreshTokens' = DeleteRefresh(refreshTokens, refresh_token)
                /\ hist' = [hist EXCEPT
                              ![refresh_token].life =
                                  IF result = {} THEN @ ELSE "revoked",
                              ![refresh_token].rv = TRUE]
                /\ IF Cardinality(result) = 0
                   THEN Answer(p, "revoke", body, RevokeNotFound, "notfound", pre)
                   ELSE Answer(p, "revoke", body,
                               [status |-> 200, success |-> TRUE,
                                message |-> "Token revoked successfully"],
                               "revoked", pre)
    /\ UNCHANGED <<made, client, users, now, nextUuid, nextToken, active, todos, held, stmt, denied>>

\* ---------------------------------------------- requireAuth, GET /profile
\* variant: a guard that answers a bad token with 403
requireAuth_Forbidden(authHeader) ==
    LET token == extractBearerToken(authHeader) IN
    IF Falsy(token)
    THEN [ok |-> FALSE,
          resp |-> Err(401, "Unauthorized",
                       "Missing or invalid Authorization header. Expected: Authorization: Bearer <token>")]
    ELSE LET payload == verifyAccessToken(token, JWT_SECRET) IN
         IF ~payload.ok
         THEN [ok |-> FALSE,
               resp |-> Err(403, "Forbidden", "Invalid or expired access token")]
         ELSE [ok |-> TRUE, userId |-> payload.userId, userEmail |-> payload.email]

\* variant: a guard that accepts a token only while its owner has a session
requireAuth_Stateful(authHeader) ==
    LET token == extractBearerToken(authHeader) IN
    IF Falsy(token)
    THEN [ok |-> FALSE,
          resp |-> Err(401, "Unauthorized",
                       "Missing or invalid Authorization header. Expected: Authorization: Bearer <token>")]
    ELSE LET payload == verifyAccessToken(token, JWT_SECRET) IN
         IF ~payload.ok \/ ~\E r \in refreshTokens : r.userId = payload.userId
         THEN [ok |-> FALSE,
               resp |-> Err(401, "Unauthorized", "Invalid or expired access token")]
         ELSE [ok |-> TRUE, userId |-> payload.userId, userEmail |-> payload.email]

requireAuth(authHeader) ==
    LET token == extractBearerToken(authHeader) IN
    IF Falsy(token)
    THEN [ok |-> FALSE,
          resp |-> Err(401, "Unauthorized",
                       "Missing or invalid Authorization header. Expected: Authorization: Bearer <token>")]
    ELSE LET payload == verifyAccessToken(token, JWT_SECRET) IN
         IF ~payload.ok
         THEN [ok |-> FALSE,
               resp |-> Err(401, "Unauthorized", "Invalid or expired access token")]
         ELSE [ok |-> TRUE, userId |-> payload.userId, userEmail |-> payload.email]

\* variant: the select without its column list
ProfileColumns_Star(u) == u
\* the columns GET /profile selects
ProfileColumns(u) ==
    [id |-> u.id, email |-> u.email, name |-> u.name, bio |-> u.bio,
     preferences |-> u.preferences, createdAt |-> u.createdAt,
     updatedAt |-> u.updatedAt]

GetProfile(p, authHeader) ==
    /\ Free(p)
    /\ LET auth == requireAuth(authHeader)
           request == [authorization |-> authHeader]
       IN  IF ~auth.ok
           THEN Answer(p, "profile", request, auth.resp, "unauthorized", NoPre)
           ELSE LET user == SelectUserById(auth.userId) IN
                IF user = {}
                THEN Answer(p, "profile", request,
                            Err(404, "Not Found", "User not found"), "notfound", NoPre)
                ELSE LET u == ProfileColumns(CHOOSE x \in user : TRUE) IN
                     Answer(p, "profile", request,
                            [f \in DOMAIN u \cup {"status"} |->
                                IF f = "status" THEN 200
                                ELSE IF f = "preferences"
                                THEN JsonParse(u.preferences)
                                ELSE u[f]],
                            "profile", NoPre)
    /\ stmt' = IF requireAuth(authHeader).ok
               THEN Stmt("select", "users", {"id"})
               ELSE NoStmt
    /\ UNCHANGED <<made, client, users, refreshTokens, now, nextUuid, nextToken, active, todos, held, hist, denied>>

\* ------------------------------------------------------------ the client
\* A client keeps the access token of an answer, with the refresh token it
\* came with, in place of the one it kept before (Authenticate in the
\* Terraform client).
Keep ==
    /\ out.op \in {"token", "refresh"}
    /\ out.resp.status = 200
    /\ held' = {[access |-> out.resp.access_token,
                 refresh |-> IF out.op = "token"
                             THEN out.resp.refresh_token
                             ELSE out.body.refresh_token]}
    /\ held' # held
    /\ UNCHANGED <<made, client, users, refreshTokens, now, nextUuid, nextToken, req, active, out,
                   hist, denied, todos, stmt>>

Tick ==
    /\ now < MaxTime
    /\ now' = now + 1
    /\ UNCHANGED <<made, client, users, refreshTokens, nextUuid, nextToken, req, active, todos, held, stmt, out, hist, denied>>

\* ---------------------------------------------------------- PUT /profile
\* the answer of the guard when it does not call next(): the handler is
\* not run
Refuse(p, op, request, auth) ==
    /\ Answer(p, op, request, auth.resp, "unauthorized", NoPre)
    /\ stmt' = NoStmt

\* variant: the update without its WHERE clause
UpdateUser_All(rows, id, updates) == {Merge(u, updates) : u \in rows}
\* UPDATE users SET ... WHERE users.id = ?
UpdateUser(rows, id, updates) ==
    {IF u.id = id THEN Merge(u, updates) ELSE u : u \in rows}

PutProfile(p, authHeader, body) ==
    /\ Free(p)
    /\ LET auth == requireAuth(authHeader)
           request == [authorization |-> authHeader, body |-> body]
           updates ==
               [c \in (DOMAIN body \cap {"name", "bio", "preferences"})
                      \cup {"updatedAt"} |->
                   IF c = "updatedAt" THEN ToColumn(now)
                   ELSE IF c = "preferences" THEN JsonStringify(body[c])
                   ELSE body[c]]
           result == {Merge(u, updates) : u \in SelectUserById(auth.userId)}
       IN  IF ~auth.ok
           THEN Refuse(p, "profile.put", request, auth) /\ users' = users
           ELSE IF "preferences" \in DOMAIN body /\ TypeOf(body.preferences) # "object"
           THEN /\ Answer(p, "profile.put", request,
                          Err(400, "Bad Request", "preferences must be an object"),
                          "invalid", NoPre)
                /\ stmt' = NoStmt
                /\ users' = users
           ELSE /\ users' = UpdateUser(users, auth.userId, updates)
                /\ stmt' = Stmt("update", "users", {"id"})
                /\ IF result = {}
                   THEN Answer(p, "profile.put", request,
                               Err(500, "Internal Server Error",
                                   <<"TypeError", "user is undefined">>),
                               "failed", NoPre)
                   ELSE LET user == CHOOSE u \in result : TRUE IN
                        Answer(p, "profile.put", request,
                               [status |-> 200, success |-> TRUE,
                                message |-> "Profile updated successfully",
                                profile |-> [id |-> user.id, email |-> user.email,
                                             name |-> user.name, bio |-> user.bio,
                                             preferences |->
                                                 JsonParse(user.preferences)]],
                               "ok", NoPre)
    /\ UNCHANGED <<made, client, refreshTokens, now, nextUuid, nextToken, active, todos, held, hist, denied>>

\* ------------------------------------------------------------ GET /todos
GetTodos(p, authHeader) ==
    /\ Free(p)
    /\ LET auth == requireAuth(authHeader)
           request == [authorization |-> authHeader]
       IN  IF ~auth.ok
           THEN Refuse(p, "todos.list", request, auth)
           ELSE /\ Answer(p, "todos.list", request,
                          [status |-> 200, todos |-> SelectTodosByUser(auth.userId)],
                          "ok", NoPre)
                /\ stmt' = Stmt("select", "todos", {"userId"})
    /\ UNCHANGED <<made, client, users, refreshTokens, now, nextUuid, nextToken, active, todos, held, hist, denied>>

\* ----------------------------------------------------------- POST /todos
PostTodo(p, authHeader, body) ==
    /\ Free(p)
    /\ LET auth == requireAuth(authHeader)
           request == [authorization |-> authHeader, body |-> body]
       IN  IF ~auth.ok
           THEN Refuse(p, "todos.create", request, auth)
                /\ UNCHANGED <<todos, nextUuid, made>>
           ELSE IF "title" \notin DOMAIN body \/ Falsy(body.title)
           THEN /\ Answer(p, "todos.create", request,
                          Err(400, "Bad Request", "Missing required field: title"),
                          "invalid", NoPre)
                /\ stmt' = NoStmt
                /\ UNCHANGED <<todos, nextUuid, made>>
           ELSE LET todo == [id |-> generateUUID, userId |-> auth.userId,
                             title |-> body.title,
                             description |-> IF "description" \in DOMAIN body
                                             THEN body.description ELSE Missing,
                             completed |-> FALSE,
                             createdAt |-> ToColumn(now),
                             updatedAt |-> ToColumn(now)]
                IN  /\ nextUuid - Cardinality(users) <= MaxTodos
                    /\ todos' = todos \cup {todo}
                    /\ made' = made \cup {[id |-> todo.id, by |-> auth.userId,
                                             gone |-> FALSE]}
                    /\ nextUuid' = nextUuid + 1
                    /\ stmt' = Stmt("insert", "todos", {})
                    /\ Answer(p, "todos.create", request,
                              [status |-> 201, success |-> TRUE,
                               message |-> "Todo created successfully",
                               todo |-> todo],
                              "ok", NoPre)
    /\ UNCHANGED <<client, users, refreshTokens, now, nextToken, active, held, hist, denied>>

\* -------------------------------------------------------- GET /todos/:id
GetTodo(p, authHeader, todoId) ==
    /\ Free(p)
    /\ LET auth == requireAuth(authHeader)
           request == [authorization |-> authHeader, id |-> todoId]
       IN  IF ~auth.ok
           THEN Refuse(p, "todos.get", request, auth)
           ELSE IF ~isValidUUID(todoId)
           THEN /\ Answer(p, "todos.get", request,
                          Err(400, "Bad Request", "Invalid todo ID format"),
                          "invalid", NoPre)
                /\ stmt' = NoStmt
           ELSE LET todo == SelectTodo(todoId, auth.userId) IN
                /\ stmt' = Stmt("select", "todos", {"id", "userId"})
                /\ IF todo = {}
                   THEN Answer(p, "todos.get", request,
                               Err(404, "Not Found", "Todo not found"),
                               "notfound", NoPre)
                   ELSE LET row == CHOOSE t \in todo : TRUE IN
                        Answer(p, "todos.get", request,
                               [f \in DOMAIN row \cup {"status"} |->
                                   IF f = "status" THEN 200 ELSE row[f]],
                               "ok", NoPre)
    /\ UNCHANGED <<made, client, users, refreshTokens, now, nextUuid, nextToken, active, todos, held, hist, denied>>

\* -------------------------------------------------------- PUT /todos/:id
PutTodoStart(p, authHeader, todoId, body) ==
    /\ Free(p)
    /\ LET auth == requireAuth(authHeader)
           request == [authorization |-> authHeader, id |-> todoId, body |-> body]
           updates ==
               [c \in (DOMAIN body \cap {"title", "description", "completed"})
                      \cup {"updatedAt"} |->
                   IF c = "updatedAt" THEN ToColumn(now)
                   ELSE IF c = "completed" THEN Boolean(body[c])
                   ELSE body[c]]
       IN  IF ~auth.ok
           THEN Refuse(p, "todos.put", request, auth)
           ELSE IF ~isValidUUID(todoId)
           THEN /\ Answer(p, "todos.put", request,
                          Err(400, "Bad Request", "Invalid todo ID format"),
                          "invalid", NoPre)
                /\ stmt' = NoStmt
           ELSE LET existingTodo == SelectTodo(todoId, auth.userId) IN
                /\ stmt' = Stmt("select", "todos", {"id", "userId"})
                /\ IF existingTodo = {}
                   THEN Answer(p, "todos.put", request,
                               Err(404, "Not Found", "Todo not found"),
                               "notfound", NoPre)
                   ELSE Await(p, [pc |-> "todo_update", request |-> request,
                                  userId |-> auth.userId, updates |-> updates])
    /\ UNCHANGED <<made, client, users, refreshTokens, now, nextUuid, nextToken, active, todos, held, hist, denied>>

PutTodoUpdate(p) ==
    /\ req[p].pc = "todo_update"
    /\ LET todoId == req[p].request.id
           result == {Merge(t, req[p].updates) : t \in {x \in todos : x.id = todoId}}
       IN  /\ todos' = UpdateTodo(todos, todoId, req[p].updates)
           /\ stmt' = Stmt("update", "todos", {"id"})
           /\ IF result = {}
              THEN Answer(p, "todos.put", req[p].request,
                          [status |-> 200, success |-> TRUE,
                           message |-> "Todo updated successfully"],
                          "gone", NoPre)
              ELSE Answer(p, "todos.put", req[p].request,
                          [status |-> 200, success |-> TRUE,
                           message |-> "Todo updated successfully",
                           todo |-> CHOOSE t \in result : TRUE],
                          "ok", NoPre)
    /\ UNCHANGED <<made, client, users, refreshTokens, now, nextUuid, nextToken, active, held, hist, denied>>

\* ----------------------------------------------------- DELETE /todos/:id
DeleteTodoStart(p, authHeader, todoId) ==
    /\ Free(p)
    /\ LET auth == requireAuth(authHeader)
           request == [authorization |-> authHeader, id |-> todoId]
       IN  IF ~auth.ok
           THEN Refuse(p, "todos.delete", request, auth)
           ELSE IF ~isValidUUID(todoId)
           THEN /\ Answer(p, "todos.delete", request,
                          Err(400, "Bad Request", "Invalid todo ID format"),
                          "invalid", NoPre)
                /\ stmt' = NoStmt
           ELSE LET existingTodo == SelectTodo(todoId, auth.userId) IN
                /\ stmt' = Stmt("select", "todos", {"id", "userId"})
                /\ IF existingTodo = {}
                   THEN Answer(p, "todos.delete", request,
                               Err(404, "Not Found", "Todo not found"),
                               "notfound", NoPre)
                   ELSE Await(p, [pc |-> "todo_delete", request |-> request,
                                  userId |-> auth.userId])
    /\ UNCHANGED <<made, client, users, refreshTokens, now, nextUuid, nextToken, active, todos, held, hist, denied>>

DeleteTodoDelete(p) ==
    /\ req[p].pc = "todo_delete"
    /\ todos' = DeleteTodo(todos, req[p].request.id)
    /\ made' = {IF m.id \in {t.id : t \in todos \ todos'}
                THEN [m EXCEPT !.gone = TRUE] ELSE m : m \in made}
    /\ stmt' = Stmt("delete", "todos", {"id"})
    /\ Answer(p, "todos.delete", req[p].request,
              [status |-> 200, success |-> TRUE,
               message |-> "Todo deleted successfully"],
              "ok", NoPre)
    /\ UNCHANGED <<client, users, refreshTokens, now, nextUuid, nextToken, active, held, hist, denied>>

\* ------------------------------------------------------------- inputs
RegisterBodies ==
    [email : {EmailA, EmailB}, password : {PwGood}, name : {NameA}]
TokenBodies ==
    [email : {EmailA, EmailB}, password : {PwGood, PwOther}]
RefreshBodies == [refresh_token : KnownTokens]
\* ... and only the strings a login handed out
IssuedBodies == [refresh_token : KnownTokens \ {Junk}]

\* the access tokens a client holds: the one of the last answer; and the
\* ones it can make up: one signed with another secret, and noise
HeldTokens ==
    IF out.op \in {"token", "refresh"} /\ out.resp.status = 200
    THEN {out.resp.access_token}
    ELSE {}
ForgedTokens ==
    {<<[k |-> "jwt", userId |-> u.id, email |-> u.email, type |-> "access",
        iat |-> Secs(now), exp |-> Secs(now) + JWT_ACCESS_EXPIRY,
        sig |-> "other-secret"]>> : u \in users}
    \cup {<<Word("garbage")>>}
Headers ==
    {Missing}
    \cup {<<Word("Bearer"), SP>> \o t : t \in HeldTokens \cup ForgedTokens}
    \cup {<<Word("bearer"), SP>> \o t : t \in HeldTokens}
    \cup {<<Word("Bearer"), SP, SP>> \o t : t \in HeldTokens}
    \cup {<<Word("Bearer")>> \o t : t \in HeldTokens}

\* the accounts after EmailA and then EmailB have registered
Registered ==
    {[id |-> <<"uuid", 1>>, email |-> EmailA, password |-> hashPassword(PwGood),
      name |-> NameA, bio |-> Missing, preferences |-> JsonStringify(EmptyObject),
      createdAt |-> 0, updatedAt |-> 0],
     [id |-> <<"uuid", 2>>, email |-> EmailB, password |-> hashPassword(PwGood),
      name |-> NameA, bio |-> Missing, preferences |-> JsonStringify(EmptyObject),
      createdAt |-> 0, updatedAt |-> 0]}

LoginBodies == [email : {EmailA, EmailB}, password : {PwGood}]

\* the token lifecycle with two requests in flight, both accounts registered
Init == InitWith(Procs, Registered)

Next ==
    \/ \E p \in Procs : \E body \in LoginBodies : TokenStart(p, body)
    \/ \E p \in Procs : TokenInsert(p)
    \/ \E p \in Procs : \E body \in IssuedBodies : RefreshStart(p, body)
    \/ \E p \in Procs : RefreshDelete(p)
    \/ \E p \in Procs : \E body \in IssuedBodies : Revoke(p, body)
    \/ Tick

Spec == Init /\ [][Next]_vars

\* registration with two requests in flight
InitRegister == InitWith(Procs, {})

NextRegister ==
    \/ \E p \in Procs : \E body \in RegisterBodies : RegisterStart(p, body)
    \/ \E p \in Procs : RegisterInsert(p)

SpecRegister == InitRegister /\ [][NextRegister]_vars

\* registration, login and the guarded profile read, one request at a time,
\* with well-formed and malformed input; EmailB never registers
AllRegisterBodies ==
    [email : {Missing, EmailNoAt, EmailA},
     password : {Missing, PwShort, PwGood},
     name : {Missing, NameA}]
AllTokenBodies ==
    [email : {Missing, EmailA, EmailB}, password : {Missing, PwGood, PwOther}]

SeqProfileBodies == {[bio |-> TitleA]}

InitSeq == InitWith({1}, {})

NextSeq ==
    \/ \E p \in active : \E body \in AllRegisterBodies : RegisterStart(p, body)
    \/ \E p \in active : RegisterInsert(p)
    \/ \E p \in active : \E body \in AllTokenBodies : TokenStart(p, body)
    \/ \E p \in active : TokenInsert(p)
    \/ \E p \in active : \E authHeader \in Headers : GetProfile(p, authHeader)
    \/ \E p \in active : \E authHeader \in Headers : \E body \in SeqProfileBodies :
          PutProfile(p, authHeader, body)
    \/ Tick

SpecSeq == InitSeq /\ [][NextSeq]_vars

\* the token lifecycle and the guard, one request at a time, with clients
\* that keep their access tokens
KeptHeaders == {Missing} \cup {<<Word("Bearer"), SP>> \o h.access : h \in held}

GuardLogins == [email : {EmailA}, password : {PwGood}]

InitGuard == InitWith({1}, Registered)

NextGuard ==
    \/ \E p \in active : \E body \in GuardLogins : TokenStart(p, body)
    \/ \E p \in active : TokenInsert(p)
    \/ \E p \in active : \E body \in RefreshBodies : RefreshStart(p, body)
    \/ \E p \in active : RefreshDelete(p)
    \/ \E p \in active : \E body \in RefreshBodies : Revoke(p, body)
    \/ Keep
    \/ \E p \in active : \E authHeader \in KeptHeaders : GetProfile(p, authHeader)
    \/ Tick

SpecGuard == InitGuard /\ [][NextGuard]_vars

\* ------------------------------------------------- the guarded routes
\* Both accounts are registered; EmailA logged in at time 0 and exchanged
\* its refresh token one second later, when EmailB logged in. The clients
\* kept all three access tokens; the first has expired by now. The model
\* follows the clients of the accounts named.
Account(email) == CHOOSE u \in Registered : u.email = email
IssuedAt(email, at) ==
    <<[generateAccessToken(Account(email).id, email, JWT_SECRET, JWT_ACCESS_EXPIRY)[1]
         EXCEPT !.iat = Secs(at), !.exp = Secs(at) + JWT_ACCESS_EXPIRY]>>

InitLoggedIn(procs, clients) ==
    /\ users = Registered
    /\ refreshTokens =
          {[token |-> Token(1), userId |-> Account(EmailA).id,
            expiresAt |-> JWT_REFRESH_EXPIRY, createdAt |-> 0],
           [token |-> Token(2), userId |-> Account(EmailB).id,
            expiresAt |-> Secs(TicksPerSec) + JWT_REFRESH_EXPIRY,
            createdAt |-> Secs(TicksPerSec)]}
    /\ now = TicksPerSec
    /\ nextUuid = Cardinality(Registered) + 1
    /\ nextToken = 3
    /\ req = [p \in Procs |-> Idle]
    /\ active = procs
    /\ out = [op |-> "none"]
    /\ hist = [t \in AllTokens |->
                 IF t = Token(1)
                 THEN [life |-> "issued", rv |-> FALSE, email |-> EmailA, at |-> 0]
                 ELSE IF t = Token(2)
                 THEN [life |-> "issued", rv |-> FALSE, email |-> EmailB,
                       at |-> Secs(TicksPerSec)]
                 ELSE NoHist]
    /\ denied = [nouser |-> <<>>, badpw |-> <<>>]
    /\ todos = {}
    /\ held = {h \in {[access |-> IssuedAt(EmailA, 0), refresh |-> Token(1)],
                       [access |-> IssuedAt(EmailA, TicksPerSec), refresh |-> Token(1)],
                       [access |-> IssuedAt(EmailB, TicksPerSec), refresh |-> Token(2)]} :
                  h.access[1].email \in clients}
    /\ stmt = NoStmt
    /\ made = {}
    /\ client = NoClient

NotAUuid == <<"text", 1>>
OtherVersion == <<"uuid-v1", 1>>

\* the ids a client can put in a path: the UUIDs of the todos made so far
TodoIds == {<<"uuid", n>> : n \in (Cardinality(Registered) + 1)..(nextUuid - 1)}

\* the headers of clients whose token is good
GoodHeaders ==
    {<<Word("Bearer"), SP>> \o h.access :
        h \in {x \in held : Secs(now) < x.access[1].exp}}

\* the headers the guard refuses: none, a scheme in lower case, two spaces,
\* no space, an expired token, a signature made with another secret, a
\* validly signed token of type 'refresh', and text that is no token
BadHeaders ==
    {Missing}
    \cup {<<Word("bearer"), SP>> \o h.access : h \in held}
    \cup {<<Word("Bearer"), SP, SP>> \o h.access : h \in held}
    \cup {<<Word("Bearer")>> \o h.access : h \in held}
    \cup {<<Word("Bearer"), SP>> \o h.access :
             h \in {x \in held : ~(Secs(now) < x.access[1].exp)}}
    \cup {<<Word("Bearer"), SP, [h.access[1] EXCEPT !.sig = "other-secret"]>> :
             h \in held}
    \cup {<<Word("Bearer"), SP, [h.access[1] EXCEPT !.type = "refresh"]>> :
             h \in held}
    \cup {<<Word("Bearer"), SP, Word("garbage")>>}

PostBodies == {[title |-> TitleA]}
PutBodies == {[title |-> TitleB], [completed |-> TRUE]}

\* todos of two accounts with two requests in flight
InitTodos == InitLoggedIn(Procs, {EmailA, EmailB})

NextTodos ==
    \/ \E p \in Procs : \E authHeader \in GoodHeaders : \E body \in PostBodies :
          PostTodo(p, authHeader, body)
    \/ \E p \in Procs : \E authHeader \in GoodHeaders : \E todoId \in TodoIds :
          GetTodo(p, authHeader, todoId)
    \/ \E p \in Procs : \E authHeader \in GoodHeaders : \E todoId \in TodoIds :
          \E body \in PutBodies : PutTodoStart(p, authHeader, todoId, body)
    \/ \E p \in Procs : PutTodoUpdate(p)
    \/ \E p \in Procs : \E authHeader \in GoodHeaders : \E todoId \in TodoIds :
          DeleteTodoStart(p, authHeader, todoId)
    \/ \E p \in Procs : DeleteTodoDelete(p)
    \/ Tick

SpecTodos == InitTodos /\ [][NextTodos]_vars

\* every guarded route, one request at a time, with good and bad headers
AllPostBodies == {[title |-> TitleA], [title |-> Missing]}
ProfileBodies == {[name |-> NameA, bio |-> TitleA],
                  [preferences |-> Json("string", TitleA)]}
PathIds == TodoIds \cup {NotAUuid, OtherVersion}
AuthPutBodies == {[completed |-> TRUE]}
AnyHeader == GoodHeaders \cup BadHeaders

InitAuth == InitLoggedIn({1}, {EmailA})

NextAuth ==
    \/ \E p \in active : \E authHeader \in AnyHeader : GetProfile(p, authHeader)
    \/ \E p \in active : \E authHeader \in AnyHeader : \E body \in ProfileBodies :
          PutProfile(p, authHeader, body)
    \/ \E p \in active : \E authHeader \in AnyHeader : GetTodos(p, authHeader)
    \/ \E p \in active : \E authHeader \in AnyHeader : \E body \in AllPostBodies :
          PostTodo(p, authHeader, body)
    \/ \E p \in active : \E authHeader \in AnyHeader : \E todoId \in PathIds :
          GetTodo(p, authHeader, todoId)
    \/ \E p \in active : \E authHeader \in AnyHeader : \E todoId \in PathIds :
          \E body \in AuthPutBodies : PutTodoStart(p, authHeader, todoId, body)
    \/ \E p \in active : PutTodoUpdate(p)
    \/ \E p \in active : \E authHeader \in AnyHeader : \E todoId \in PathIds :
          DeleteTodoStart(p, authHeader, todoId)
    \/ \E p \in active : DeleteTodoDelete(p)
    \/ Tick

SpecAuth == InitAuth /\ [][NextAuth]_vars

\* ------------------------------------------------- whose todos these are
\* the clients of both accounts, two requests in flight, with request bodies
\* that name an owner: the caller's account or the other one
OwnerPostBodies == {[title |-> TitleA, userId |-> u.id] : u \in users}
OwnerPutBodies == {[title |-> TitleB, userId |-> u.id] : u \in users}

InitOwner == InitLoggedIn(Procs, {EmailA, EmailB})

NextOwner ==
    \/ \E p \in active : \E authHeader \in GoodHeaders : GetTodos(p, authHeader)
    \/ \E p \in active : \E authHeader \in GoodHeaders : \E body \in OwnerPostBodies :
          PostTodo(p, authHeader, body)
    \/ \E p \in active : \E authHeader \in GoodHeaders : \E todoId \in TodoIds :
          \E body \in OwnerPutBodies : PutTodoStart(p, authHeader, todoId, body)
    \/ \E p \in active : PutTodoUpdate(p)
    \/ \E p \in active : \E authHeader \in GoodHeaders : \E todoId \in TodoIds :
          DeleteTodoStart(p, authHeader, todoId)
    \/ \E p \in active : DeleteTodoDelete(p)
    \/ Tick

SpecOwner == InitOwner /\ [][NextOwner]_vars

\* ------------------------------------------------------- the profile
\* the clients of both accounts read and update their profiles, one request
\* at a time. The bodies: a name and bio with preferences that are a
\* string; preferences that are null; preferences that are an array;
\* preferences that are an object with a string and an array in it; and a
\* name with the id, email and password of the other account.
Key(c) == <<c>>
Prefs ==
    Json("object", <<<<Key("k"), Json("string", TitleA)>>,
                     <<Key("l"), Json("array", <<Json("null", <<>>)>>)>>>>)
EditBodies ==
    {[name |-> TitleB, bio |-> TitleA, preferences |-> Json("string", TitleA)],
     [bio |-> TitleB, preferences |-> Json("null", <<>>)],
     [preferences |-> Json("array", <<Json("string", TitleA)>>)],
     [preferences |-> Prefs]}
    \cup {[name |-> TitleB, id |-> u.id, email |-> u.email, password |-> PwOther] :
             u \in {Account(EmailB)}}

InitProfile == InitLoggedIn({1}, {EmailA, EmailB})

NextProfile ==
    \/ \E p \in active : \E authHeader \in GoodHeaders : GetProfile(p, authHeader)
    \/ \E p \in active : \E authHeader \in GoodHeaders : \E body \in EditBodies :
          PutProfile(p, authHeader, body)
    \/ Tick

SpecProfile == InitProfile /\ [][NextProfile]_vars

\* ------------------------------------------------ the Terraform client
\* One Client and the server, one request at a time. The client writes a
\* request (the last item of client.sent) and waits; the server's handler
\* runs on it; the client takes the answer. While a request of the client
\* is on the wire, out holds no answer. The client writes a request when
\* the server has no other request in hand.
\* The record also holds what the provider keeps for its one resource:
\* the operation in progress (rpc) with its plan, the resource's state and
\* the diagnostics of the last operation.
NoState == [null |-> TRUE]
NewClient(email, password) ==
    [pc |-> "ready", Email |-> email, Password |-> password,
     AccessToken |-> Missing, RefreshToken |-> Missing,
     call |-> NoCall, sent |-> <<>>, result |-> NoResult,
     rpc |-> "none", plan |-> NoState, state |-> NoState, diag |-> "none"]

\* the request DoRequest builds: the Authorization header is "Bearer "
\* followed by the access token
ClientRequest(c, call) ==
    [method |-> call.method, path |-> call.path, body |-> call.body,
     authorization |-> <<Word("Bearer"), SP>> \o c.AccessToken]

\* the request Authenticate builds
TokenRequest(c) ==
    [method |-> "POST", path |-> <<"token">>,
     body |-> [email |-> c.Email, password |-> c.Password]]

\* variant: the tokens of the answer dropped
Authenticated_KeepToken(c, tokenResp) == c
\* c.AccessToken = tokenResp.AccessToken; c.RefreshToken = ...
Authenticated(c, tokenResp) ==
    [c EXCEPT !.AccessToken = tokenResp.access_token,
              !.RefreshToken = tokenResp.refresh_token]

Send(c) ==
    /\ \A p \in active : req[p].pc = "idle"
    /\ client' = c
    /\ out' = [op |-> "none"]
    /\ UNCHANGED <<users, refreshTokens, now, nextUuid, nextToken, req, active,
                   hist, denied, todos, held, stmt, made>>

\* Date.prototype.toJSON, as c.json writes a timestamp column
toJSON(date) == <<"iso", date>>

\* json.NewDecoder(resp.Body).Decode(&todo): the members of the body whose
\* keys are the tags of Todo; a field with no member keeps its zero value,
\* and so does a string field whose member is null
DecodeTodo(body) ==
    LET str(key) == IF key \in DOMAIN body THEN body[key] ELSE Missing
        time(key) == IF key \in DOMAIN body THEN toJSON(body[key]) ELSE Missing
    IN  [ID |-> str("id"), UserID |-> str("userId"), Title |-> str("title"),
         Description |-> str("description"),
         Completed |-> IF "completed" \in DOMAIN body THEN body.completed ELSE FALSE,
         CreatedAt |-> time("createdAt"), UpdatedAt |-> time("updatedAt")]

\* Client.CreateTodo from DoRequest's return on
ClientCreateTodo(result) ==
    IF result.err # "nil" THEN [err |-> result.err]
    ELSE IF result.resp.status \notin {200, 201} THEN [err |-> "create todo failed"]
    ELSE [err |-> "nil", todo |-> DecodeTodo(result.resp)]

\* variant: a 404 taken for any other failure
ClientGetTodo_NoNotFound(result) ==
    IF result.err # "nil" THEN [err |-> result.err]
    ELSE IF result.resp.status # 200 THEN [err |-> "get todo failed"]
    ELSE [err |-> "nil", todo |-> DecodeTodo(result.resp)]
\* Client.GetTodo from DoRequest's return on
ClientGetTodo(result) ==
    IF result.err # "nil" THEN [err |-> result.err]
    ELSE IF result.resp.status = 404 THEN [err |-> "todo not found"]
    ELSE IF result.resp.status # 200 THEN [err |-> "get todo failed"]
    ELSE [err |-> "nil", todo |-> DecodeTodo(result.resp)]

\* Client.UpdateTodo from DoRequest's return on
ClientUpdateTodo(result) ==
    IF result.err # "nil" THEN [err |-> result.err]
    ELSE IF result.resp.status # 200 THEN [err |-> "update todo failed"]
    ELSE [err |-> "nil", todo |-> DecodeTodo(result.resp)]

\* variant: only a 200 is a success
ClientDeleteTodo_Strict(result) ==
    IF result.err # "nil" THEN [err |-> result.err]
    ELSE IF result.resp.status # 200 THEN [err |-> "delete todo failed"]
    ELSE [err |-> "nil"]
\* Client.DeleteTodo from DoRequest's return on
ClientDeleteTodo(result) ==
    IF result.err # "nil" THEN [err |-> result.err]
    ELSE IF result.resp.status = 404 THEN [err |-> "nil"]
    ELSE IF result.resp.status # 200 THEN [err |-> "delete todo failed"]
    ELSE [err |-> "nil"]

\* todoResource.Create, Read, Update and Delete from the return of the
\* client's method on: the diagnostics and the state the operation leaves
ResourceDone(c) ==
    LET done == [c EXCEPT !.rpc = "none", !.plan = NoState] IN
    CASE c.rpc = "create" ->
           LET r == ClientCreateTodo(c.result) IN
           IF r.err # "nil"
           THEN [done EXCEPT !.diag = "Error Creating Todo"]
           ELSE [done EXCEPT !.state = r.todo]
      [] c.rpc = "read" ->
           LET r == ClientGetTodo(c.result) IN
           IF r.err = "todo not found"
           THEN [done EXCEPT !.state = NoState]
           ELSE IF r.err # "nil"
           THEN [done EXCEPT !.diag = "Error Reading Todo"]
           ELSE [done EXCEPT !.state = [r.todo EXCEPT !.ID = c.state.ID]]
      [] c.rpc = "update" ->
           LET r == ClientUpdateTodo(c.result) IN
           IF r.err # "nil"
           THEN [done EXCEPT !.diag = "Error Updating Todo"]
           ELSE [done EXCEPT !.state = r.todo]
      [] c.rpc = "delete" ->
           LET r == ClientDeleteTodo(c.result) IN
           IF r.err # "nil"
           THEN [done EXCEPT !.diag = "Error Deleting Todo"]
           ELSE [done EXCEPT !.state = NoState]
      [] OTHER -> c

Return(c) ==
    /\ client' = ResourceDone(c)
    /\ UNCHANGED <<users, refreshTokens, now, nextUuid, nextToken, req, active, out,
                   hist, denied, todos, held, stmt, made>>

Answered == out.op # "none" /\ \A p \in active : req[p].pc = "idle"

\* Authenticate(), called by the provider's Configure
Authenticate ==
    /\ client.pc = "ready"
    /\ client.AccessToken = Missing
    /\ Send([client EXCEPT !.pc = "auth_wait", !.call = NoCall,
                           !.sent = <<TokenRequest(client)>>,
                           !.result = NoResult])

\* DoRequest(method, path, body), up to the request being written
Requesting(c, method, path, body) ==
    LET call == [method |-> method, path |-> path, body |-> body] IN
    Send([c EXCEPT !.pc = "wait", !.call = call,
                   !.sent = <<ClientRequest(c, call)>>,
                   !.result = NoResult])

DoRequest(method, path, body) ==
    /\ client.pc = "ready"
    /\ Requesting(client, method, path, body)

\* DoRequest from the response on: a 401 makes it call Authenticate, which
\* writes its request; any other answer is returned
DoRequestResponse ==
    /\ client.pc = "wait"
    /\ Answered
    /\ IF out.resp.status = 401
       THEN Send([client EXCEPT !.pc = "auth_wait",
                                !.sent = Append(@, TokenRequest(client))])
       ELSE Return([client EXCEPT !.pc = "ready", !.call = NoCall,
                                  !.result = [err |-> "nil", resp |-> out.resp]])

\* Authenticate from the response on; inside DoRequest, its success is
\* followed by DoRequest(method, path, body) again
AuthenticateResponse ==
    /\ client.pc = "auth_wait"
    /\ Answered
    /\ IF out.resp.status # 200
       THEN Return([client EXCEPT
                      !.pc = "ready", !.call = NoCall,
                      !.result = [err |-> IF client.call = NoCall
                                          THEN "authentication failed"
                                          ELSE "re-authentication failed",
                                  status |-> out.resp.status]])
       ELSE LET c == Authenticated(client, out.resp) IN
            IF client.call = NoCall
            THEN Return([c EXCEPT !.pc = "ready", !.result = [err |-> "nil"]])
            ELSE Send([c EXCEPT !.pc = "wait",
                                !.sent = Append(@, ClientRequest(c, client.call))])

\* the request on the wire, if the server has not taken it yet
Wire ==
    IF client.pc \in {"wait", "auth_wait"} /\ out.op = "none"
    THEN {client.sent[Len(client.sent)]}
    ELSE {}
Routed(r, method, path) ==
    r.method = method /\ Len(r.path) = Len(path) /\ r.path[1] = path[1]

\* what the resource's Create, Read, Update and Delete pass to DoRequest
ClientCalls ==
    {[method |-> "POST", path |-> <<"todos">>,
      body |-> [title |-> TitleA, description |-> Missing, completed |-> FALSE]]}
    \cup {[method |-> m, path |-> <<"todos", id>>, body |-> NoBody] :
             m \in {"GET", "DELETE"}, id \in TodoIds}
    \cup {[method |-> "PUT", path |-> <<"todos", id>>, body |-> [completed |-> TRUE]] :
             id \in TodoIds}

InitClient ==
    /\ users = Registered
    /\ refreshTokens = {}
    /\ now = 0
    /\ nextUuid = Cardinality(Registered) + 1
    /\ nextToken = 1
    /\ req = [p \in Procs |-> Idle]
    /\ active = {1}
    /\ out = [op |-> "none"]
    /\ hist = [t \in AllTokens |-> NoHist]
    /\ denied = [nouser |-> <<>>, badpw |-> <<>>]
    /\ todos = {}
    /\ held = {}
    /\ stmt = NoStmt
    /\ made = {}
    /\ client \in {NewClient(EmailA, pw) : pw \in {PwGood, PwOther}}

NextClient ==
    \/ Authenticate
    \/ AuthenticateResponse
    \/ \E call \in ClientCalls : DoRequest(call.method, call.path, call.body)
    \/ DoRequestResponse
    \/ \E p \in active : \E r \in Wire :
          Routed(r, "POST", <<"token">>) /\ TokenStart(p, r.body)
    \/ \E p \in active : TokenInsert(p)
    \/ \E p \in active : \E r \in Wire :
          Routed(r, "POST", <<"todos">>) /\ PostTodo(p, r.authorization, r.body)
    \/ \E p \in active : \E r \in Wire :
          Routed(r, "GET", <<"todos", "id">>) /\ GetTodo(p, r.authorization, r.path[2])
    \/ \E p \in active : \E r \in Wire :
          Routed(r, "PUT", <<"todos", "id">>)
             /\ PutTodoStart(p, r.authorization, r.path[2], r.body)
    \/ \E p \in active : PutTodoUpdate(p)
    \/ \E p \in active : \E r \in Wire :
          Routed(r, "DELETE", <<"todos", "id">>)
             /\ DeleteTodoStart(p, r.authorization, r.path[2])
    \/ \E p \in active : DeleteTodoDelete(p)
    \/ Tick

SpecClient == InitClient /\ [][NextClient]_vars

\* --------------------------------------------- the apibasics_todo resource
\* One resource of the provider. Its operations run once Configure has
\* authenticated the client, one at a time; Create runs when the resource
\* is not in state, Read, Update and Delete when it is. An operation on a
\* state whose id is empty is left out: the path it asks for is /todos/,
\* which none of the routes of index.ts takes.
Configured == client.pc = "ready" /\ client.rpc = "none" /\ client.AccessToken # Missing
InState == client.state # NoState /\ client.state.ID # Missing

Starting(rpc, plan) == [client EXCEPT !.rpc = rpc, !.plan = plan, !.diag = "none"]

Create(plan) ==
    /\ Configured
    /\ client.state = NoState
    /\ Requesting(Starting("create", plan), "POST", <<"todos">>,
                  [title |-> plan.Title, description |-> plan.Description,
                   completed |-> plan.Completed])

Read ==
    /\ Configured
    /\ InState
    /\ Requesting(Starting("read", NoState), "GET", <<"todos", client.state.ID>>, NoBody)

Update(plan) ==
    /\ Configured
    /\ InState
    /\ Requesting(Starting("update", plan), "PUT", <<"todos", client.state.ID>>,
                  [title |-> plan.Title, description |-> plan.Description,
                   completed |-> plan.Completed])

Delete ==
    /\ Configured
    /\ InState
    /\ Requesting(Starting("delete", NoState), "DELETE", <<"todos", client.state.ID>>,
                  NoBody)

\* ImportStatePassthroughID: the id given on the command line becomes the
\* id attribute of a state with nothing else in it
ImportState(id) ==
    /\ Configured
    /\ client.state = NoState
    /\ client' = [client EXCEPT
                    !.diag = "none",
                    !.state = [ID |-> id, UserID |-> Missing, Title |-> Missing,
                               Description |-> Missing, Completed |-> FALSE,
                               CreatedAt |-> Missing, UpdatedAt |-> Missing]]
    /\ UNCHANGED <<users, refreshTokens, now, nextUuid, nextToken, req, active, out,
                   hist, denied, todos, held, stmt, made>>

\* the plans of the configuration, and the ids given to terraform import
Plans ==
    {[Title |-> t, Description |-> Missing, Completed |-> c] :
        t \in {TitleA}, c \in BOOLEAN}
ImportIds == TodoIds \cup {NotAUuid}

\* Beside Terraform, the accounts use the API directly, each with the
\* access token of a login of its own: todos are made and deleted outside
\* Terraform, between the requests of the provider.
Outside == client.pc = "ready" /\ client.rpc = "none"
OutsideHeaders ==
    {<<Word("Bearer"), SP>>
        \o generateAccessToken(Account(e).id, e, JWT_SECRET, JWT_ACCESS_EXPIRY) :
        e \in {EmailA, EmailB}}

InitProvider ==
    /\ InitClient
    /\ client.Password = PwGood

NextProvider ==
    \/ Authenticate
    \/ AuthenticateResponse
    \/ \E plan \in Plans : Create(plan)
    \/ Read
    \/ \E plan \in Plans : Update(plan)
    \/ Delete
    \/ \E id \in ImportIds : ImportState(id)
    \/ DoRequestResponse
    \/ \E p \in active : \E r \in Wire :
          Routed(r, "POST", <<"token">>) /\ TokenStart(p, r.body)
    \/ \E p \in active : TokenInsert(p)
    \/ \E p \in active : \E r \in Wire :
          Routed(r, "POST", <<"todos">>) /\ PostTodo(p, r.authorization, r.body)
    \/ \E p \in active : \E r \in Wire :
          Routed(r, "GET", <<"todos", "id">>) /\ GetTodo(p, r.authorization, r.path[2])
    \/ \E p \in active : \E r \in Wire :
          Routed(r, "PUT", <<"todos", "id">>)
             /\ PutTodoStart(p, r.authorization, r.path[2], r.body)
    \/ \E p \in active : PutTodoUpdate(p)
    \/ \E p \in active : \E r \in Wire :
          Routed(r, "DELETE", <<"todos", "id">>)
             /\ DeleteTodoStart(p, r.authorization, r.path[2])
    \/ \E p \in active : DeleteTodoDelete(p)
    \/ \E p \in active : \E h \in OutsideHeaders :
          Outside /\ PostTodo(p, h, [title |-> TitleB])
    \/ \E p \in active : \E h \in OutsideHeaders : \E id \in TodoIds :
          Outside /\ DeleteTodoStart(p, h, id)
    \/ Tick

SpecProvider == InitProvider /\ [][NextProvider]_vars

\* ------------------------------------------------- content negotiation
\* A header value is a sequence of pieces of text; a string is contained in
\* it when it is one of the pieces. toLowerCase works piece by piece.
Lower(w) ==
    CASE w \in {"Curl", "CURL"} -> "curl"
      [] w = "Mozilla" -> "mozilla"
      [] w = "Chrome" -> "chrome"
      [] w = "Safari" -> "safari"
      [] w = "Go-http-client" -> "go-http-client"
      [] w = "Application/JSON" -> "application/json"
      [] OTHER -> w
toLowerCase(s) == [i \in DOMAIN s |-> Lower(s[i])]

\* variant: the User-Agent looked at before the Accept header
detectClientType_AgentFirst(userAgent, accept) ==
    IF Includes(toLowerCase(userAgent), "curl") THEN "curl"
    ELSE IF \E b \in {"mozilla", "chrome", "safari"} :
               Includes(toLowerCase(userAgent), b) THEN "browser"
    ELSE IF Includes(accept, "application/json") THEN "json"
    ELSE IF Includes(accept, "text/html") THEN "browser"
    ELSE "json"
detectClientType(userAgent, accept) ==
    IF Includes(accept, "application/json") THEN "json"
    ELSE IF Includes(accept, "text/html") THEN "browser"
    ELSE IF Includes(toLowerCase(userAgent), "curl") THEN "curl"
    ELSE IF \E b \in {"mozilla", "chrome", "safari"} :
               Includes(toLowerCase(userAgent), b) THEN "browser"
    ELSE "json"

\* c.text, c.html and c.json: the content type, the body and the status
formatResponse(userAgent, accept, data, status) ==
    LET clientType == detectClientType(userAgent, accept) IN
    IF clientType = "curl"
    THEN [type |-> "text/plain", body |-> <<"formatPlaintext", data>>, status |-> status]
    ELSE IF clientType = "browser"
    THEN [type |-> "text/html", body |-> <<"formatHtml", data>>, status |-> status]
    ELSE [type |-> "application/json", body |-> <<"json", data>>, status |-> status]

\* what the handlers hand to formatResponse: an error or a success, with
\* its status
FormatData ==
    {[data |-> [error |-> r.error, message |-> r.message], status |-> r.status] :
        r \in {NoSuchUser, RevokeNotFound,
                Err(400, "Bad Request", "Invalid todo ID format"),
                Err(409, "Conflict", "Email already registered"),
                Err(500, "Internal Server Error", "Failed to get todo")}}
    \cup {[data |-> [success |-> TRUE, message |-> "Todo created successfully"],
            status |-> 201],
           [data |-> [success |-> TRUE, message |-> "Token revoked successfully"],
            status |-> 200]}
AcceptHeaders ==
    {Missing, <<"*/*">>, <<"application/json">>, <<"text/html", ",", "application/xhtml+xml">>,
     <<"text/html", ",", "application/json">>, <<"Application/JSON">>}
UserAgents ==
    {Missing, <<"curl", "/", "8.0">>, <<"CURL">>, <<"Mozilla", "/", "5.0">>,
     <<"Mozilla", "/", "5.0", "Chrome", "Safari">>, <<"Safari">>,
     <<"Go-http-client", "/", "1.1">>, <<"PostmanRuntime">>}

Format(userAgent, accept, data, status) ==
    /\ out' = [op |-> "format",
               body |-> [userAgent |-> userAgent, accept |-> accept,
                         data |-> data, status |-> status],
               resp |-> formatResponse(userAgent, accept, data, status)]
    /\ UNCHANGED <<users, refreshTokens, now, nextUuid, nextToken, req, active,
                   hist, denied, todos, held, stmt, made, client>>

InitFormat == InitWith({1}, {})

NextFormat ==
    \E userAgent \in UserAgents : \E accept \in AcceptHeaders : \E d \in FormatData :
       Format(userAgent, accept, d.data, d.status)

SpecFormat == InitFormat /\ [][NextFormat]_vars

\* --------------------------------------------------- the token codec
\* generateAccessToken and verifyAccessToken on their own: a caller signs
\* with one of two secrets and one of two lifetimes, and verifies what it
\* signed, what somebody else made of it, and strings that are no tokens
Secrets == {JWT_SECRET, "other-secret"}
Lifetimes == {1, 2}

CodecSign(userId, email, secret, expirySeconds) ==
    /\ held' = {[access |-> generateAccessToken(userId, email, secret, expirySeconds),
                 secret |-> secret, lifetime |-> expirySeconds, at |-> now]}
    /\ held' # held
    /\ UNCHANGED <<made, client, users, refreshTokens, now, nextUuid, nextToken, req, active, out,
                   hist, denied, todos, stmt>>

\* what a caller can hand to verify: the token it signed, the same claims
\* under a signature made with another secret, a validly signed token of
\* type 'refresh', a token followed by more text, text, and nothing
Untrusted ==
    {h.access : h \in held}
    \cup {<<[h.access[1] EXCEPT !.sig = "forged"]>> : h \in held}
    \cup {<<[h.access[1] EXCEPT !.type = "refresh"]>> : h \in held}
    \cup {h.access \o <<Word("x")>> : h \in held}
    \cup {<<Word("garbage")>>, Missing}

CodecVerify(token, secret) ==
    /\ out' = [op |-> "verify", body |-> [token |-> token, secret |-> secret],
               resp |-> verifyAccessToken(token, secret), tag |-> "verified",
               pre |-> NoPre]
    /\ out' # out
    /\ UNCHANGED <<made, client, users, refreshTokens, now, nextUuid, nextToken, req, active, held,
                   hist, denied, todos, stmt>>

InitCodec == InitWith({1}, Registered)

NextCodec ==
    \/ \E u \in users : \E secret \in Secrets : \E expirySeconds \in Lifetimes :
          CodecSign(u.id, u.email, secret, expirySeconds)
    \/ \E token \in Untrusted : \E secret \in Secrets : CodecVerify(token, secret)
    \/ Tick

SpecCodec == InitCodec /\ [][NextCodec]_vars

\* ====================================================================
\* Properties
\* ====================================================================
Stored(t) == \E r \in refreshTokens : r.token = t
RowsOf(rows, t) == {r \in rows : r.token = t}

\* a step in which a request is answered
Answers(op) == out' # out /\ out'.op = op
\* ... by the handler's first step, and by the step that follows its await
AnswersAtOnce(op) == Answers(op) /\ req' = req
AnswersFrom(op, pc) ==
    /\ Answers(op)
    /\ \E p \in Procs : req[p].pc = pc /\ req'[p].pc = "idle"

\* C1: once POST /revoke has been answered for a refresh token (200 or 404),
\* the token has no row, and every POST /refresh with it that starts
\* afterwards is refused: no 200 and no access token in the answer.
C1_RevokedNeverRefreshes ==
    /\ \A t \in AllTokens : hist[t].rv => ~Stored(t)
    /\ (out.op = "refresh" /\ out.pre.rv) =>
          /\ out.resp.status = 401
          /\ "access_token" \notin DOMAIN out.resp

C1_Witness ==
    /\ out.op = "refresh"
    /\ out.pre.rv
    /\ out.pre.life = "revoked"
    /\ out.resp.status = 401

\* C2: a POST /refresh that finds a row whose expiry has passed is not
\* answered before the row's deletion, and is then answered 401 "expired"
\* with the row gone; a refresh that starts after that deletion is answered
\* 401 "Invalid refresh token", and a revoke that starts after it 404.
C2_ExpiredStep ==
    /\ AnswersAtOnce("refresh") =>
          ~\E r \in RowsOf(refreshTokens, out'.body.refresh_token) :
                FromColumn(r.expiresAt) < now
    /\ AnswersFrom("refresh", "refresh_delete") =>
          /\ out'.resp = Err(401, "Unauthorized", "Refresh token has expired")
          /\ RowsOf(refreshTokens', out'.body.refresh_token) = {}
    /\ \A p \in Procs :
          (req[p].pc = "idle" /\ req'[p].pc = "refresh_delete") =>
             \E r \in RowsOf(refreshTokens, req'[p].body.refresh_token) :
                FromColumn(r.expiresAt) < now

C2_AfterExpiry ==
    /\ (out.op = "refresh" /\ out.pre.life = "expired") =>
          out.resp = Err(401, "Unauthorized", "Invalid refresh token")
    /\ (out.op = "revoke" /\ out.pre.life = "expired") =>
          out.resp.status = 404

C2_ExpiredTokenIsConsumed == [][C2_ExpiredStep]_vars /\ []C2_AfterExpiry

C2_Witness ==
    /\ out.op = "revoke"
    /\ out.pre.life = "expired"
    /\ out.resp.status = 404

\* C3: the row of a refresh token appears only by a successful login that
\* draws the token for the first time, disappears only by a POST /revoke
\* answered 200 or by a POST /refresh answered "expired" past the row's
\* expiry, and is otherwise left as it is (a successful refresh included);
\* once revoked or expired-and-deleted, a token never has a row again.
C3_Step ==
    \A t \in AllTokens :
       /\ (~Stored(t) /\ Stored(t)') =>
             /\ AnswersFrom("token", "token_insert")
             /\ out'.resp.status = 200
             /\ out'.resp.refresh_token = t
             /\ hist[t].life = "absent"
             /\ hist'[t].life = "issued"
       /\ (Stored(t) /\ ~Stored(t)') =>
             \/ /\ AnswersAtOnce("revoke")
                /\ out'.body.refresh_token = t
                /\ out'.resp.status = 200
                /\ hist'[t].life = "revoked"
             \/ /\ AnswersFrom("refresh", "refresh_delete")
                /\ out'.body.refresh_token = t
                /\ out'.resp.status = 401
                /\ \A r \in RowsOf(refreshTokens, t) : FromColumn(r.expiresAt) < now
                /\ hist'[t].life = "expired"
       /\ (Stored(t) /\ Stored(t)') =>
             /\ RowsOf(refreshTokens', t) = RowsOf(refreshTokens, t)
             /\ hist'[t].life = "issued"
       /\ (Answers("refresh") /\ out'.resp.status = 200
             /\ out'.body.refresh_token = t) =>
             Stored(t) /\ Stored(t)'
       /\ hist[t].life \in {"revoked", "expired"} =>
             ~Stored(t)' /\ hist'[t].life = hist[t].life

C3_Lifecycle == [][C3_Step]_vars

C3_Witness ==
    \E t1, t2 \in AllTokens :
       /\ hist[t1].life = "revoked"
       /\ hist[t2].life = "expired"
       /\ out.op = "refresh"
       /\ out.body.refresh_token = t2
       /\ out.resp.message = "Refresh token has expired"

\* C4: a POST /refresh answered 200 leaves the refresh_tokens table as it
\* was, the token's row with its expiry included, so the token can be
\* exchanged again.
C4_Step ==
    (Answers("refresh") /\ out'.resp.status = 200) =>
       /\ refreshTokens' = refreshTokens
       /\ RowsOf(refreshTokens', out'.body.refresh_token) # {}

C4_RefreshKeepsTable == [][C4_Step]_vars

C4_Witness ==
    /\ out.op = "refresh"
    /\ out.resp.status = 200
    /\ out.tag = "refreshed again"
    /\ Stored(out.body.refresh_token)

\* C5: the access token of a POST /refresh answered 200 carries the email
\* that the login which created the refresh token was made with, and the
\* id of the account with that email.
C5_RefreshBoundToOwner ==
    (out.op = "refresh" /\ out.resp.status = 200) =>
       LET claims == out.resp.access_token[1]
           login == hist[out.body.refresh_token].email
       IN  /\ claims.email = login
           /\ \E u \in users : u.email = login /\ u.id = claims.userId
           /\ \A u \in users : u.email # login => u.id # claims.userId

C5_Witness ==
    /\ out.op = "refresh"
    /\ out.resp.status = 200
    /\ \E r \in refreshTokens : r.userId # out.resp.access_token[1].userId
    /\ out.resp.access_token[1].email = EmailB

StoreUnchanged ==
    /\ users' = users
    /\ refreshTokens' = refreshTokens
    /\ nextUuid' = nextUuid
    /\ nextToken' = nextToken

\* C6: a login with an email that has no account and a login with the
\* wrong password of an existing account are both answered 401, with the
\* same body, and neither changes the store.
C6_Same ==
    (denied.nouser # <<>> /\ denied.badpw # <<>>) =>
       /\ denied.nouser = denied.badpw
       /\ denied.nouser[1].status = 401

C6_Step ==
    (Answers("token") /\ ~Falsy(out'.body.email) /\ ~Falsy(out'.body.password)) =>
       LET account == SelectUserByEmail(out'.body.email) IN
       /\ account = {} =>
             /\ denied'.nouser = <<out'.resp>>
             /\ out'.resp.status = 401
             /\ StoreUnchanged
       /\ (account # {} /\ \A u \in account :
                              u.password # hashPassword(out'.body.password)) =>
             /\ denied'.badpw = <<out'.resp>>
             /\ out'.resp.status = 401
             /\ StoreUnchanged

C6_LoginRefusalsAlike == []C6_Same /\ [][C6_Step]_vars

C6_Witness ==
    /\ denied.nouser # <<>>
    /\ denied.badpw # <<>>
    /\ out.op = "token"
    /\ out.body = [email |-> EmailA, password |-> PwOther]

\* C7: a registration with a well-formed body for an email without an
\* account is answered 201; the login that follows it with the same email
\* and password is answered 200 with an access token that the guard accepts
\* within the token's lifetime; and GET /profile with that token, within
\* its lifetime, is answered 200 with the same email.
Invalid(body) ==
    \/ Falsy(body.email) \/ Falsy(body.password) \/ Falsy(body.name)
    \/ ~Includes(body.email, "@")
    \/ Len(body.password) < 8

Bearer(token) == <<Word("Bearer"), SP>> \o token

C7_Step ==
    /\ (Answers("register") /\ ~Invalid(out'.body)
          /\ SelectUserByEmail(out'.body.email) = {}) =>
          /\ out'.resp.status = 201
          /\ out'.resp.email = out'.body.email
          /\ \E u \in users' : u.email = out'.body.email /\ u.id = out'.resp.userId
    /\ (out.op = "register" /\ out.resp.status = 201 /\ Answers("token")
          /\ out'.body.email = out.body.email
          /\ out'.body.password = out.body.password) =>
          /\ out'.resp.status = 200
          /\ out'.resp.access_token[1].email = out.body.email
          /\ Secs(now) < out'.resp.access_token[1].iat + JWT_ACCESS_EXPIRY =>
                /\ requireAuth(Bearer(out'.resp.access_token)).ok
                /\ requireAuth(Bearer(out'.resp.access_token)).userEmail
                      = out.body.email
    /\ (out.op = "token" /\ out.resp.status = 200 /\ Answers("profile")
          /\ out'.body.authorization = Bearer(out.resp.access_token)
          /\ Secs(now) < out.resp.access_token[1].iat + JWT_ACCESS_EXPIRY) =>
          /\ out'.resp.status = 200
          /\ out'.resp.email = out.body.email

C7_RegisterLoginProfile == [][C7_Step]_vars

C7_Witness ==
    /\ out.op = "profile"
    /\ out.resp.status = 200
    /\ out.resp.email = EmailA
    /\ out.body.authorization[1] = Word("Bearer")

\* C8: no two accounts have the same email; and a registration that
\* arrives for an email that has an account is answered 409 and leaves the
\* users table as it was.
C8_Unique == \A u1, u2 \in users : u1.email = u2.email => u1 = u2

C8_Step ==
    (AnswersAtOnce("register") /\ SelectUserByEmail(out'.body.email) # {}) =>
       /\ out'.resp.status = 409
       /\ users' = users

C8_EmailsUnique == []C8_Unique /\ [][C8_Step]_vars

C8_Witness ==
    /\ out.op = "register"
    /\ out.resp.status = 409
    /\ Cardinality(users) = 2

\* C9: a registration whose existence check passed and whose insert the
\* store rejects, because a concurrent registration took the email in
\* between, is answered 409 and leaves the users table as it was.
C9_Step ==
    (AnswersFrom("register", "register_insert")
        /\ SelectUserByEmail(out'.body.email) # {}) =>
       /\ out'.resp.status = 409
       /\ users' = users

C9_RaceIsConflict == [][C9_Step]_vars

\* C10: a registration with a missing field, an email without "@" or a
\* password of fewer than 8 characters is answered 400 at once and changes
\* nothing in the store; no such body ever reaches the insert.
C10_NeverInserted ==
    /\ \A p \in Procs : req[p].pc = "register_insert" => ~Invalid(req[p].body)
    /\ \A u \in users : Includes(u.email, "@") /\ ~Falsy(u.name)
                        /\ Len(u.password.bcrypt) >= 8

C10_Step ==
    (Answers("register") /\ Invalid(out'.body)) =>
       /\ out'.resp.status = 400
       /\ req' = req
       /\ StoreUnchanged

C10_InvalidRegistration == []C10_NeverInserted /\ [][C10_Step]_vars

C10_Witness ==
    /\ out.op = "register"
    /\ out.resp.status = 400
    /\ out.body = [email |-> EmailA, password |-> PwShort, name |-> NameA]

\* C11, as stated: every stored refresh token row has expiresAt equal to
\* its created_at plus the refresh lifetime, hence later than created_at,
\* and belongs to the account that logged in.
C11_ExpiryFromCreation ==
    \A r \in refreshTokens :
       /\ r.expiresAt = r.createdAt + JWT_REFRESH_EXPIRY
       /\ r.expiresAt > r.createdAt
       /\ \E u \in users : u.id = r.userId /\ u.email = hist[r.token].email

\* C11, amended: every stored refresh token row has expiresAt equal to the
\* whole second of the handler's clock reading at login plus the refresh
\* lifetime; created_at is the store's clock at the insert, not earlier than
\* that reading, so expiresAt is at most created_at plus the lifetime; and
\* the row belongs to the account that logged in.
C11_ExpiryFromLogin ==
    \A r \in refreshTokens :
       /\ r.expiresAt = hist[r.token].at + JWT_REFRESH_EXPIRY
       /\ r.createdAt >= hist[r.token].at
       /\ r.expiresAt <= r.createdAt + JWT_REFRESH_EXPIRY
       /\ \E u \in users : u.id = r.userId /\ u.email = hist[r.token].email
       /\ \A u \in users : u.id = r.userId => u.email = hist[r.token].email

C11_Witness ==
    \E r \in refreshTokens :
       /\ r.createdAt > hist[r.token].at
       /\ hist[r.token].email = EmailB
       /\ \E r2 \in refreshTokens : r2.createdAt = hist[r2.token].at

\* C12: an account may hold several valid refresh tokens at once. No step
\* of a login removes or changes a stored refresh token row; a revocation
\* or an expiry deletion of one token leaves every row of another token as
\* it was; and a POST /refresh with a token whose row is stored and not
\* past its expiry is answered 200 for the row's owner, whatever happened
\* to the owner's other tokens.
C12_Step ==
    /\ ((\E p \in Procs : req'[p].pc = "token_insert" /\ req[p].pc = "idle")
          \/ Answers("token")) =>
          refreshTokens \subseteq refreshTokens'
    /\ (Answers("revoke") \/ AnswersFrom("refresh", "refresh_delete")) =>
          \A r \in refreshTokens :
             r.token # out'.body.refresh_token => r \in refreshTokens'
    /\ AnswersAtOnce("refresh") =>
          \A r \in RowsOf(refreshTokens, out'.body.refresh_token) :
             ~(FromColumn(r.expiresAt) < now) =>
                /\ out'.resp.status = 200
                /\ out'.resp.access_token[1].userId = r.userId

C12_SeveralTokens == [][C12_Step]_vars

C12_Witness ==
    /\ out.op = "refresh"
    /\ out.resp.status = 200
    /\ \E t \in AllTokens :
          /\ t # out.body.refresh_token
          /\ hist[t].life = "revoked"
          /\ hist[t].email = hist[out.body.refresh_token].email

\* C13: a POST /revoke with a token that has a stored row deletes that row,
\* and nothing else, and is answered 200; a POST /revoke with a token that
\* has no stored row is answered 404, the first time and every time after,
\* and changes nothing.
C13_Step ==
    (AnswersAtOnce("revoke") /\ ~Falsy(out'.body.refresh_token)) =>
       LET rows == RowsOf(refreshTokens, out'.body.refresh_token) IN
       /\ users' = users /\ todos' = todos
       /\ nextUuid' = nextUuid /\ nextToken' = nextToken
       /\ rows # {} =>
             /\ out'.resp.status = 200
             /\ Cardinality(rows) = 1
             /\ refreshTokens' = refreshTokens \ rows
       /\ rows = {} =>
             /\ out'.resp = Err(404, "Not Found", "Refresh token not found")
             /\ refreshTokens' = refreshTokens

C13_Revoke == [][C13_Step]_vars

C13_Witness ==
    /\ out.op = "revoke"
    /\ out.resp.status = 404
    /\ out.pre.life = "revoked"
    /\ out.pre.rv
    /\ refreshTokens # {}

\* C18: the guard accepts an access token that a login or a refresh handed
\* out for as long as the token's own expiry has not come, also after the
\* refresh token it came with was revoked or was deleted on expiry; GET
\* /profile with it is answered 200 for the token's account.
C18_Accepted ==
    \A h \in held :
       Secs(now) < h.access[1].exp =>
          /\ requireAuth(Bearer(h.access)).ok
          /\ requireAuth(Bearer(h.access)).userId = h.access[1].userId

C18_Step ==
    Answers("profile") =>
       \A h \in held :
          (out'.body.authorization = Bearer(h.access)
             /\ Secs(now) < h.access[1].exp) =>
                /\ out'.resp.status = 200
                /\ out'.resp.email = h.access[1].email

C18_Stateless == []C18_Accepted /\ [][C18_Step]_vars

C18_Witness ==
    /\ out.op = "profile"
    /\ out.resp.status = 200
    /\ \E h \in held :
          /\ out.body.authorization = Bearer(h.access)
          /\ hist[h.refresh].life = "expired"
    /\ \E t \in AllTokens : hist[t].life = "revoked"

\* C16: verifyAccessToken returns null, and raises nothing, for a string
\* that is no token, a token signed with another secret, a token whose
\* expiry has come and a validly signed token whose type is not 'access':
\* all four get the same result; it returns the claims exactly when the
\* signature, the expiry and the type are all good.
C16_Good(token, secret) ==
    /\ Len(token) = 1
    /\ token[1].k = "jwt"
    /\ token[1].sig = secret
    /\ Secs(now) < token[1].exp
    /\ token[1].type = "access"

C16_Step ==
    Answers("verify") =>
       LET token == out'.body.token
           secret == out'.body.secret
       IN  /\ C16_Good(token, secret) =>
                /\ out'.resp.ok
                /\ out'.resp.userId = token[1].userId
                /\ out'.resp.email = token[1].email
           /\ ~C16_Good(token, secret) => out'.resp = NoPayload

C16_VerifyNeverRaises == [][C16_Step]_vars

C16_Witness ==
    /\ out.op = "verify"
    /\ out.resp = NoPayload
    /\ \E h \in held :
          /\ out.body.token = h.access
          /\ out.body.secret = h.secret
          /\ ~(Secs(now) < h.access[1].exp)

\* C17: an access token signed with lifetime L under secret S verifies
\* under S at the moment it is signed; at every time later than that moment
\* plus L it fails under S; once it has failed it never verifies again; and
\* under a secret other than S it fails at every time.
C17_Lifetime ==
    \A h \in held :
       /\ now = h.at => verifyAccessToken(h.access, h.secret).ok
       /\ now > h.at + h.lifetime * TicksPerSec =>
             verifyAccessToken(h.access, h.secret) = NoPayload
       /\ \A secret \in Secrets \ {h.secret} :
             verifyAccessToken(h.access, secret) = NoPayload

C17_Step ==
    \A h \in held \cap held' :
       ~verifyAccessToken(h.access, h.secret).ok =>
          ~(verifyAccessToken(h.access, h.secret).ok)'

C17_IssuedTokenLifetime == []C17_Lifetime /\ [][C17_Step]_vars

C17_Witness ==
    \E h \in held :
       /\ now > h.at + h.lifetime * TicksPerSec
       /\ out.op = "verify"
       /\ out.body = [token |-> h.access, secret |-> h.secret]
       /\ out.resp = NoPayload

GuardedOps ==
    {"profile", "profile.put", "todos.list", "todos.create", "todos.get",
     "todos.put", "todos.delete"}

\* a header of exactly two parts, the first the word Bearer
TwoParts(header) ==
    /\ Len(header) >= 3
    /\ header[1] = Word("Bearer")
    /\ header[2] = SP
    /\ \A i \in 3..Len(header) : header[i] # SP

\* C14: on every guarded route (GET and PUT /profile, every /todos route) a
\* request whose Authorization header is missing, is not exactly two parts
\* with the word Bearer first, or carries a token that fails verification
\* is answered 401 by the guard: the handler makes no store call and no
\* table changes; only a request that passes the guard goes on to a second
\* store call, and a request that passes is not answered 401.
C14_Passes(header) ==
    /\ TwoParts(header)
    /\ C16_Good(SubSeq(header, 3, Len(header)), JWT_SECRET)

C14_Step ==
    /\ \A op \in GuardedOps :
          AnswersAtOnce(op) =>
             IF C14_Passes(out'.body.authorization)
             THEN out'.resp.status # 401
             ELSE /\ out'.resp.status = 401
                  /\ out'.resp.error = "Unauthorized"
                  /\ stmt' = NoStmt
                  /\ StoreUnchanged
                  /\ todos' = todos
    /\ \A p \in Procs :
          (req[p].pc = "idle" /\ req'[p].pc \in {"todo_update", "todo_delete"}) =>
             C14_Passes(req'[p].request.authorization)

C14_GuardRefuses == [][C14_Step]_vars

C14_Witness ==
    /\ out.op = "todos.delete"
    /\ out.resp.status = 401
    /\ Len(out.body.authorization) = 3
    /\ out.body.authorization[1] = Word("bearer")
    /\ \E t \in todos : t.id = out.body.id
    /\ stmt = NoStmt

\* a two-part Bearer header whose token is a signed token with a signature
\* made with another secret, or with its expiry reached
C15_FailingToken(header) ==
    /\ TwoParts(header)
    /\ Len(header) = 3
    /\ header[3].k = "jwt"
    /\ (header[3].sig # JWT_SECRET \/ ~(Secs(now) < header[3].exp))

C15_SameRequest ==
    /\ out.op \in GuardedOps
    /\ AnswersAtOnce(out.op)
    /\ \A f \in DOMAIN out.body \ {"authorization"} : out'.body[f] = out.body[f]

\* C15, as stated: a request to a guarded route with a token that fails the
\* signature or the expiry check is answered exactly as the same request
\* without an Authorization header.
C15_SameAsAbsent ==
    (C15_SameRequest /\ out.body.authorization = Missing
        /\ C15_FailingToken(out'.body.authorization)) =>
       out'.resp = out.resp

C15_Step ==
    /\ (C15_SameRequest /\ out.body.authorization = Missing
          /\ C15_FailingToken(out'.body.authorization)) =>
          /\ out'.resp.status = 401 /\ out.resp.status = 401
          /\ out'.resp.error = out.resp.error
          /\ out'.resp.message = "Invalid or expired access token"
          /\ out.resp.message # out'.resp.message
    /\ (C15_SameRequest /\ C15_FailingToken(out.body.authorization)
          /\ out.resp.status = 401
          /\ C15_FailingToken(out'.body.authorization)) =>
          out'.resp = out.resp

C19_Step ==
    \A op \in {"todos.get", "todos.put", "todos.delete"} :
       (Answers(op)
          /\ \E t \in todos : /\ t.id = out'.body.id
                              /\ t.userId # out'.body.authorization[3].userId) =>
          /\ out'.resp.status = 404
          /\ DOMAIN out'.resp \cap {"todo", "id", "title"} = {}
          /\ todos' = todos

C19_OthersTodoNotFound == [][C19_Step]_vars

C19_Witness ==
    /\ out.op = "todos.put"
    /\ out.resp.status = 404
    /\ \E t \in todos : /\ t.id = out.body.id
                        /\ t.userId # out.body.authorization[3].userId
                        /\ t.userId = Account(EmailB).id

\* C21: an authenticated GET, PUT or DELETE /todos/:id whose id is not a
\* well-formed version 4 UUID is answered 400 by the handler's first step,
\* which runs no store statement and changes no table; no request with
\* such an id ever waits for an update or a delete of the todos table.
C21_Malformed(id) == id[1] # "uuid"

C21_Step ==
    /\ \A op \in {"todos.get", "todos.put", "todos.delete"} :
          (AnswersAtOnce(op) /\ C14_Passes(out'.body.authorization)
             /\ C21_Malformed(out'.body.id)) =>
             /\ out'.resp.status = 400
             /\ DOMAIN out'.resp \cap {"todo", "id", "title"} = {}
             /\ stmt' = NoStmt
             /\ StoreUnchanged
             /\ todos' = todos
    /\ \A p \in Procs :
          req'[p].pc \in {"todo_update", "todo_delete"} =>
             ~C21_Malformed(req'[p].request.id)

C21_BadIdRefusedBeforeLookup == [][C21_Step]_vars

C21_Witness ==
    /\ out.op = "todos.put"
    /\ out.resp.status = 400
    /\ out.body.id = OtherVersion
    /\ C14_Passes(out.body.authorization)
    /\ todos # {}
    /\ stmt = NoStmt

\* C22: GET /todos answered to account A returns exactly the rows whose
\* inserting request was authenticated as A and that no DELETE has removed
\* since, so none of another account; the todo of a 201 is stored with the
\* caller as its owner whatever owner the body names, and a stored row's
\* owner is always the account it was inserted for.
C22_Caller(answer) == answer.body.authorization[3].userId

C22_Live(userId) == {m.id : m \in {x \in made : x.by = userId /\ ~x.gone}}

C22_Inv ==
    /\ \A t \in todos : \E m \in made : m.id = t.id /\ m.by = t.userId /\ ~m.gone
    /\ \A m \in made : ~m.gone => \E t \in todos : t.id = m.id

C22_Step ==
    /\ Answers("todos.list") =>
          /\ out'.resp.status = 200
          /\ {t.id : t \in out'.resp.todos} = C22_Live(C22_Caller(out'))
          /\ out'.resp.todos \subseteq todos
          /\ \A t \in out'.resp.todos : t.userId = C22_Caller(out')
    /\ (Answers("todos.create") /\ out'.resp.status = 201) =>
          /\ out'.resp.todo.userId = C22_Caller(out')
          /\ out'.resp.todo \in todos'
          /\ \E m \in made' : /\ m.id = out'.resp.todo.id
                              /\ m.by = C22_Caller(out')
                              /\ ~m.gone

C22_ListIsOwn == []C22_Inv /\ [][C22_Step]_vars

C22_Witness ==
    /\ out.op = "todos.list"
    /\ out.resp.status = 200
    /\ C22_Caller(out) = Account(EmailA).id
    /\ out.resp.todos = {}
    /\ \E t \in todos : /\ t.userId = Account(EmailB).id
                        /\ t.title = TitleB
    /\ \E m \in made : m.by = Account(EmailB).id /\ ~m.gone

\* C23: the password column of every users row holds the hasher's output
\* for a password, never a password itself, and no answer of POST
\* /register, POST /token, GET /profile or PUT /profile carries the
\* password column, at the top of the body or in its profile.
C23_Passwords == {PwGood, PwOther, PwShort}

C23_NoHashIn(resp) ==
    /\ "password" \notin DOMAIN resp
    /\ "profile" \in DOMAIN resp => "password" \notin DOMAIN resp.profile

C23_HashStaysInside ==
    /\ \A u \in users : u.password \in {hashPassword(pw) : pw \in C23_Passwords}
    /\ out.op \in {"register", "token", "profile", "profile.put"} =>
          C23_NoHashIn(out.resp)

C23_Witness ==
    /\ out.op = "profile"
    /\ out.resp.status = 200
    /\ \E u \in users : /\ u.email = out.resp.email
                        /\ u.password = hashPassword(PwGood)
                        /\ u.bio = TitleA
    /\ out.resp.bio = TitleA

\* C24: no step removes a users row or changes its id, email, password or
\* createdAt; a row changes only by a PUT /profile answered 200 to the
\* account of that row, whatever id, email or password the body names.
C24_Step ==
    /\ Cardinality(users') = Cardinality(users)
    /\ \A u \in users :
          \E v \in users' :
             /\ v.id = u.id
             /\ v.email = u.email
             /\ v.password = u.password
             /\ v.createdAt = u.createdAt
             /\ v # u => /\ out'.op = "profile.put"
                         /\ out'.resp.status = 200
                         /\ C22_Caller(out') = u.id

C24_AccountRowFrame == [][C24_Step]_vars

C24_Witness ==
    /\ out.op = "profile.put"
    /\ out.resp.status = 200
    /\ "email" \in DOMAIN out.body.body
    /\ C22_Caller(out) = Account(EmailA).id
    /\ out.body.body.email = EmailB
    /\ \E u \in users : /\ u.id = Account(EmailA).id
                        /\ u.email = EmailA
                        /\ u.name = TitleB
                        /\ u.updatedAt > u.createdAt
    /\ Account(EmailB) \in users

\* C25: an authenticated PUT /profile whose preferences field is present
\* and is not a JSON object (a string, null or an array) is answered 400
\* and leaves the users table as it was.
C25_Step ==
    (Answers("profile.put") /\ C14_Passes(out'.body.authorization)
       /\ "preferences" \in DOMAIN out'.body.body
       /\ out'.body.body.preferences.t # "object") =>
       /\ out'.resp.status = 400
       /\ users' = users

C25_NonObjectPreferencesRefused == [][C25_Step]_vars

\* C29: when PUT /profile with preferences that are an object has been
\* answered 200 and the next answer is a 200 to GET /profile of the same
\* account, the preferences it returns equal the object that was sent.
C29_Step ==
    (/\ out.op = "profile.put"
     /\ out.resp.status = 200
     /\ "preferences" \in DOMAIN out.body.body
     /\ out.body.body.preferences.t = "object"
     /\ Answers("profile")
     /\ out'.resp.status = 200
     /\ C22_Caller(out') = C22_Caller(out)) =>
       out'.resp.preferences = out.body.body.preferences

C29_PreferencesRoundTrip == [][C29_Step]_vars

C29_Witness ==
    /\ out.op = "profile"
    /\ out.resp.status = 200
    /\ out.resp.preferences = Prefs
    /\ \E u \in users : /\ u.id = C22_Caller(out)
                        /\ u.preferences = Serialize(Prefs)
                        /\ Len(u.preferences) = 11

\* C26: when the store raises during a handler (the insert of POST
\* /register rejected by the unique index on users.email), the client is
\* answered 500 "Internal Server Error" with a message that is not the
\* message of the store's exception, and the users table is unchanged.
C26_Step ==
    (AnswersFrom("register", "register_insert")
        /\ SelectUserByEmail(out'.body.email) # {}) =>
       /\ out'.resp.status = 500
       /\ out'.resp.error = "Internal Server Error"
       /\ out'.resp.message \notin {StoreError("users.email"), StoreError("users.id")}
       /\ users' = users

C26_NoInternalsIn500 == [][C26_Step]_vars

\* C27: with one request at a time, a DELETE /todos/:id for a stored todo
\* of the caller is not refused, and its answer is 200 with exactly that
\* row removed; every DELETE for a todo of the caller that a DELETE has
\* removed before is answered 404 and leaves every table as it was.
C27_Own(id, userId, gone) ==
    \E m \in made : m.id = id /\ m.by = userId /\ m.gone = gone

C27_Step ==
    /\ (AnswersAtOnce("todos.delete") /\ C14_Passes(out'.body.authorization)) =>
          /\ ~C27_Own(out'.body.id, C22_Caller(out'), FALSE)
          /\ C27_Own(out'.body.id, C22_Caller(out'), TRUE) =>
                /\ out'.resp.status = 404
                /\ todos' = todos
                /\ made' = made
                /\ StoreUnchanged
    /\ AnswersFrom("todos.delete", "todo_delete") =>
          /\ out'.resp.status = 200
          /\ C27_Own(out'.body.id, C22_Caller(out'), FALSE)
          /\ todos' = {t \in todos : t.id # out'.body.id}
          /\ todos' # todos
          /\ StoreUnchanged

C27_DeleteOnce == [][C27_Step]_vars

C27_Witness ==
    /\ out.op = "todos.delete"
    /\ out.resp.status = 404
    /\ C14_Passes(out.body.authorization)
    /\ C27_Own(out.body.id, C22_Caller(out), TRUE)
    /\ \A t \in todos : t.id # out.body.id

\* C28: the update of PUT /todos/:id changes one row, a todo of the caller:
\* of title, description and completed, the fields present in the body
\* take the body's values and the absent ones keep theirs; id, owner and
\* createdAt are kept (updatedAt may change); every other todos row and
\* the users table are as before. The lookup step changes no row.
C28_Content == {"title", "description", "completed"}

C28_Step ==
    /\ AnswersFrom("todos.put", "todo_update") =>
          /\ Cardinality(todos') = Cardinality(todos)
          /\ users' = users
          /\ \A t \in todos :
                IF t.id # out'.body.id
                THEN t \in todos'
                ELSE /\ t.userId = C22_Caller(out')
                     /\ \E v \in todos' :
                           /\ v.id = t.id
                           /\ v.userId = t.userId
                           /\ v.createdAt = t.createdAt
                           /\ \A f \in C28_Content :
                                 v[f] = IF f \in DOMAIN out'.body.body
                                        THEN out'.body.body[f]
                                        ELSE t[f]
    /\ (\E p \in Procs : req[p].pc = "idle" /\ req'[p].pc = "todo_update") =>
          todos' = todos

C30_Takes == client' # client /\ out.op # "none" /\ client.call # NoCall

C30_Wrote(request) == client'.sent = Append(client.sent, request)

C30_Step ==
    C30_Takes =>
       LET last == client.sent[Len(client.sent)] IN
       IF last.path # <<"token">>
       THEN IF out.resp.status = 401
            THEN /\ C30_Wrote([method |-> "POST", path |-> <<"token">>,
                               body |-> [email |-> client.Email,
                                         password |-> client.Password]])
                 /\ client'.result = NoResult
            ELSE /\ client'.sent = client.sent
                 /\ client'.result = [err |-> "nil", resp |-> out.resp]
       ELSE IF out.resp.status = 200
            THEN /\ client'.AccessToken = out.resp.access_token
                 /\ C30_Wrote([client.sent[1] EXCEPT
                                 !.authorization = Bearer(out.resp.access_token)])
                 /\ client'.call = client.call
                 /\ client'.result = NoResult
            ELSE /\ client'.sent = client.sent
                 /\ client'.AccessToken = client.AccessToken
                 /\ client'.result.err = "re-authentication failed"
                 /\ client'.call = NoCall

C35_Step ==
    /\ \A r \in refreshTokens :
          (AnswersAtOnce("refresh") /\ out'.body.refresh_token = r.token) =>
             /\ FromColumn(r.expiresAt) >= now
             /\ out'.resp.status = 200
             /\ "access_token" \in DOMAIN out'.resp
             /\ r \in refreshTokens'
    /\ \A p \in Procs :
          (req[p].pc = "idle" /\ req'[p].pc = "refresh_delete") =>
             \E r \in refreshTokens : /\ r.token = req'[p].body.refresh_token
                                      /\ FromColumn(r.expiresAt) < now
    /\ AnswersFrom("refresh", "refresh_delete") => out'.resp.status = 401

C35_ExpiryIsStrict == [][C35_Step]_vars

C35_Witness ==
    /\ out.op = "refresh"
    /\ out.resp.status = 200
    /\ \E r \in refreshTokens : /\ r.token = out.body.refresh_token
                                /\ FromColumn(r.expiresAt) = now

\* C40: POST /revoke with a stored token is answered 200 and deletes the
\* row whether or not the row's expiresAt has passed, while POST /refresh
\* with a stored token whose expiresAt has passed is never answered 200.
C40_Step ==
    \A r \in refreshTokens :
       /\ (Answers("revoke") /\ out'.body.refresh_token = r.token) =>
             /\ out'.resp.status = 200
             /\ r \notin refreshTokens'
             /\ \A x \in refreshTokens' : x.token # r.token
       /\ (Answers("refresh") /\ out'.body.refresh_token = r.token
              /\ FromColumn(r.expiresAt) < now) =>
             out'.resp.status = 401

C40_RevokeIgnoresExpiry == [][C40_Step]_vars

C40_Witness ==
    /\ out.op = "revoke"
    /\ out.resp.status = 200
    /\ \E p \in Procs : /\ req[p].pc = "refresh_delete"
                        /\ req[p].body.refresh_token = out.body.refresh_token
    /\ \A r \in refreshTokens : r.token # out.body.refresh_token

\* C38: with requests of one account in flight together, every PUT
\* /todos/:id answered 200 updated a row that was stored when the update
\* ran, and its answer carries that row as it is after the update.
C38_Step ==
    (Answers("todos.put") /\ out'.resp.status = 200) =>
       /\ \E t \in todos : t.id = out'.body.id
       /\ "todo" \in DOMAIN out'.resp
       /\ out'.resp.todo \in todos'

C38_PutAnswersForStoredRow == [][C38_Step]_vars

\* C39: of the DELETE /todos/:id requests for one todo, whatever their
\* interleaving, at most one is answered 200: a DELETE answered 200 is the
\* one whose statement removed the row.
C39_Step ==
    (Answers("todos.delete") /\ out'.resp.status = 200) =>
       /\ \E t \in todos : t.id = out'.body.id
       /\ \A t \in todos' : t.id # out'.body.id

C39_OneDeleteSucceeds == [][C39_Step]_vars

\* C34: the format of an answer is JSON when Accept contains
\* application/json, whatever the User-Agent; otherwise HTML when Accept
\* contains text/html; otherwise plain text when the User-Agent contains
\* curl in any case; otherwise HTML when the User-Agent contains mozilla,
\* chrome or safari in any case; otherwise JSON. The status of the answer
\* is the status the handler gave, in every format.
C34_Has(s, words) == \E i \in 1..Len(s) : s[i] \in words

C34_Curl == {"curl", "Curl", "CURL"}
C34_Browser == {"mozilla", "Mozilla", "chrome", "Chrome", "safari", "Safari"}

Returns(rpc) == client.rpc = rpc /\ client'.rpc = "none"

\* C31: when a Create of the resource returns without an error, the id in
\* state is the id of the row the server inserted for its request, and the
\* title, description, completed and user_id in state are the values of
\* that stored row.
C31_Step ==
    (Returns("create") /\ client'.diag = "none") =>
       \E t \in todos :
          /\ t = out.resp.todo
          /\ client'.state # NoState
          /\ client'.state.ID = t.id
          /\ client'.state.Title = t.title
          /\ client'.state.Description = t.description
          /\ client'.state.Completed = t.completed
          /\ client'.state.UserID = t.userId

C31_StateIsCreatedRow == [][C31_Step]_vars

\* C32: when a Create of the resource returns without an error, the row
\* the server inserted for its request has the completed value of the
\* plan.
C32_Step ==
    (Returns("create") /\ client'.diag = "none") =>
       \E t \in todos :
          /\ t = out.resp.todo
          /\ t.completed = client.plan.Completed

C32_CompletedHonouredOnCreate == [][C32_Step]_vars

\* C33: when a Read of the resource returns, the resource is out of state
\* exactly when the server's last answer to it was 404; after a 200 there
\* is no error and the state holds its old id with the title, description,
\* completed, user_id and timestamps of the row the server holds for that
\* id; after any other outcome there is an error and the state is as it
\* was.
C33_NotFound == out.op = "todos.get" /\ out.resp.status = 404
C33_Found == out.op = "todos.get" /\ out.resp.status = 200

C33_Step ==
    Returns("read") =>
       /\ (client'.state = NoState) <=> C33_NotFound
       /\ C33_NotFound => client'.diag = "none"
       /\ C33_Found =>
             /\ client'.diag = "none"
             /\ \E t \in todos :
                   /\ t.id = client.state.ID
                   /\ client'.state =
                         [ID |-> client.state.ID, UserID |-> t.userId,
                          Title |-> t.title, Description |-> t.description,
                          Completed |-> t.completed,
                          CreatedAt |-> toJSON(t.createdAt),
                          UpdatedAt |-> toJSON(t.updatedAt)]
       /\ (~C33_NotFound /\ ~C33_Found) =>
             /\ client'.diag # "none"
             /\ client'.state = client.state

C33_ReadRefreshesOrRemoves == [][C33_Step]_vars

\* a Read answered 404 for a todo of another account has removed the
\* resource from state
C33_Witness ==
    /\ client.pc = "ready"
    /\ client.rpc = "none"
    /\ client.state = NoState
    /\ client.diag = "none"
    /\ out.op = "todos.get"
    /\ out.resp.status = 404
    /\ \E t \in todos : t.id = out.body.id /\ t.userId = Account(EmailB).id

\* C36: when a Delete of the resource returns after the server's answer
\* 200 or 404, there is no error and the resource is out of state; a
\* Delete answered 404 has changed no table; after any other outcome
\* there is an error and the resource stays in state as it was.
C36_Gone == out.op = "todos.delete" /\ out.resp.status \in {200, 404}

C36_Step ==
    Returns("delete") =>
       /\ C36_Gone => (client'.diag = "none" /\ client'.state = NoState)
       /\ ~C36_Gone => (client'.diag # "none" /\ client'.state = client.state)

C36_Inv ==
    (client.rpc = "delete" /\ out.op = "todos.delete" /\ out.resp.status = 404) =>
       \A t \in todos : t.id # out.body.id \/ t.userId # C22_Caller(out)

C36_DeleteIsIdempotent == []C36_Inv /\ [][C36_Step]_vars

\* a Delete answered 404, for a todo an earlier Delete removed, has
\* succeeded
C36_Witness ==
    /\ client.pc = "ready"
    /\ client.rpc = "none"
    /\ client.state = NoState
    /\ client.diag = "none"
    /\ out.op = "todos.delete"
    /\ out.resp.status = 404
    /\ \E m \in made : m.id = out.body.id /\ m.gone

\* C37: a call of DoRequest gives up by itself: the times it has
\* re-authenticated and tried again stay below the number of logins the
\* server can be brought to answer, however often its request is answered
\* 401.
C37_Retries ==
    Cardinality({i \in 1..Len(client.sent) : client.sent[i].path = <<"token">>})

C37_RetryIsBounded ==
    (client.pc \in {"wait", "auth_wait"} /\ client.call # NoCall) =>
       C37_Retries < MaxTokens

\* C20: every statement that GET, PUT and DELETE /todos/:id run on the
\* todos table (the lookup, the update and the delete) selects rows by the
\* todo id and by the account id of the caller.
C20_FiltersByBoth ==
    (stmt.verb \in {"select", "update", "delete"} /\ stmt.table = "todos"
        /\ "id" \in stmt.where) =>
       stmt.where = {"id", "userId"}
====
